---- MODULE Spec2Model ----
(***************************************************************************)
(* State-machine model of the Hue bridge synchronisation engine.            *)
(*                                                                          *)
(* Spec         HueAdapter (src/src/hueadapter.cpp): snapshot cycles, also   *)
(*              overlapping ones, with failing secondary types and lazy     *)
(*              device-metadata fetches.                                    *)
(* SpecRetry    one cycle in which any type may fail and be retried.        *)
(* SpecResync   the cycles of Spec, started from a synchronised adapter.    *)
(* SpecEvents   one cycle with the event stream (update and delete events), *)
(*              the resync, dial-reset and multi-press timers, and channel  *)
(*              writes.                                                     *)
(* SpecSidecar  HueSidecar::pollBridge / buildSnapshot / publishSnapshot    *)
(*              (src/src/hueadapter.h, src/src/hue_model.cpp).              *)
(* SpecRooms    the sidecar's polls of a bridge that keeps its devices      *)
(*              while its rooms and services come and go.                   *)
(* SpecStop     a cycle ended by HueAdapter::stop.                          *)
(* SpecStream   the event stream connection ending and reconnecting.        *)
(* SpecButton   button events and the multi-press window.                   *)
(* SpecDial     rotary events and the dial-reset timer.                     *)
(* SpecRename   updateDeviceName and its verification fetches.              *)
(* SpecWrite    channel writes through the sidecar and through the adapter. *)
(* SpecScenes    scene arrays polled by the sidecar and scene events.       *)
(* SpecNaming    discovered and pending device names across cycles.         *)
(* SpecPending   a cycle whose devices wait for their metadata.             *)
(* SpecDiscovery cycles following zigbee_device_discovery.                  *)
(* SpecFetch     metadata fetches asked for by owner events, six devices.   *)
(* SpecFetchCap  the fetch queue beyond four fetches in flight.             *)
(* SpecCoalesce  the resync timer under delete and topology events.         *)
(* SpecReconnect    stream reconnects around a device-discovery action.     *)
(* SpecZones        room and zone memberships built by adapter and sidecar. *)
(* SpecFrames       event-stream frames split over transport chunks.        *)
(* SpecGroupEvents  room and zone update events.                            *)
(* SpecSceneSync    cycles that follow the scene type.                      *)
(* SpecConnectivity connection-state notifications of both.                 *)
(*                                                                          *)
(* Every handler runs to completion (single-threaded Qt event loop), so one *)
(* action is one handler call.  A handler is written as a function from an  *)
(* adapter record to an adapter record so that the calls it makes compose   *)
(* in program order; Commit writes the record back to the variables.        *)
(***************************************************************************)
EXTENDS Integers, Sequences, FiniteSets, TLC

(***************************************************************************)
(* Bounds of the exploration.                                               *)
(***************************************************************************)
\* calls of requestFullSync
MaxCycles == 2
\* calls of requestFullSync in the behaviours with a single cycle
MaxSingleCycles == 1
\* event objects delivered by the event stream
MaxEvents == 2
\* failed snapshot replies
MaxSnapshotFailures == 4
\* failed lazy device fetches
MaxDeviceFetchFailures == 1
\* channel writes from the host
MaxCommands == 1
\* sidecar polls
MaxPolls == 3
\* messages a sidecar poll can send: two removals or two devices with a
\* channel state each, and the scene list
MaxSends == 5
\* terminations of the event stream
MaxStreamEnds == 8
\* button events in a behaviour of the multi-press aggregation
MaxButtonEvents == 8
\* relative_rotary events in a behaviour of the dial
MaxDialEvents == 4
\* updateDeviceName calls, each with a cmd id of its own or with none
MaxRenames == 2
\* channel writes in a behaviour
MaxInvokes == 1
\* button resources of one device, and the largest control id
MaxButtons == 3
\* references in the services and in the children array of a room or zone
MaxServiceRefs == 1
MaxChildRefs == 2
\* frames the bridge writes to the event stream
MaxFrames == 3
MaxControlId == 3

(***************************************************************************)
(* Program constants.                                                       *)
(***************************************************************************)
kMaxConcurrentV2DeviceFetch == 4
kMaxV2ResourceSnapshotRetries == 3
kV2ResourceRetryBaseDelayMs == 1000
kSnapshotStaggerMs == 400
kButtonMultiPressWindowMs == 1200
kButtonMultiPressResetGapMs == 500
kFastReconnects == 5
kSuppressedErrors == 3
kRenameVerifyDelayMs == 700
kRenameVerifyMaxAttempts == 3

(***************************************************************************)
(* The bridge's resource graph the model ranges over.  Device d1 owns the   *)
(* light service, device d2 owns the button service and a relative_rotary   *)
(* service.  A light resource carries only an "on" object.                  *)
(***************************************************************************)
Devices == {"d1", "d2"}
\* Further devices of the bridge: resources they own are met only where the
\* lazy metadata fetches are studied.
ExtraDevices == {"d3", "d4", "d5", "d6"}
\* The devices of the bridge of a behaviour: set by the initial predicate,
\* never changed.
VARIABLE bridgeDevices
AllDevices == bridgeDevices
\* the extra device the host renames
RenamedExtra == "d3"
\* raw device payloads
Metas == {"m1"}
LightOwner == "d1"
ButtonOwner == "d2"
RotaryOwner == "d2"
DiscoveryOwner == "d2"

\* Of the thirteen resource types fetchV2ResourcesSnapshot requests, a
\* behaviour follows the ones in followedTypes, in request order; the list
\* is set by the initial predicate and never changes.
VARIABLE followedTypes

\* The resource types a snapshot cycle requests, in request order.
Resources == followedTypes
ResourceTypes == {Resources[i] : i \in 1..Len(Resources)}
\* The lists a behaviour follows, and the types that occur in them.
ServiceTypes == <<"device", "light", "button">>
DiscoveryTypes == <<"device", "light", "zigbee_device_discovery">>
SceneTypes == <<"device", "light", "scene">>
DeviceOnly == <<"device">>
AllTypes == {"device", "light", "button", "zigbee_device_discovery", "scene"}
\* The modelled types whose failure ends HueSidecar::pollBridge; HueAdapter
\* has no such list.
CoreTypes == {"device", "light"}

\* A /resource/device array: device objects with distinct ids.
DeviceArrays ==
    {{[id |-> d, meta |-> <<f[d]>>] : d \in S} : S \in SUBSET Devices, f \in [Devices -> Metas]}
LightArrays == {{}, {LightOwner}}      \* owners of the light resources
ButtonArrays == {{}, {ButtonOwner}}    \* owners of the button resources
DiscoveryArrays == {{}, {DiscoveryOwner}}    \* owners of the discovery resources
\* Scene objects of the bridge: the id and metadata.name of each.  " " is
\* a name of white space.
SceneIds == {"s1"}
SceneNames == {"", " ", "Relax"}
SceneObjects == {[id |-> i, name |-> n] : i \in SceneIds \cup {""}, n \in SceneNames}
SceneArrays == {{}} \cup {{o} : o \in SceneObjects}
ArraysOf(t) ==
    IF t = "device" THEN DeviceArrays
    ELSE IF t = "light" THEN LightArrays
    ELSE IF t = "button" THEN ButtonArrays
    ELSE IF t = "scene" THEN SceneArrays ELSE DiscoveryArrays

VARIABLES
    \* ---- HueAdapter members (src/src/hueadapter.h:133-207)
    m_connected,
    m_stopping,
    m_v2SnapshotPending,
    m_v2BootstrapDone,
    m_v2SnapshotFailedThisCycle,
    m_v2SnapshotByType,          \* type -> [present, data]
    m_pendingV2ResourceTypes,
    m_v2ResourceRetryCount,      \* type -> attempts (0 = no entry)
    m_pendingV2DeviceFetch,
    m_v2DeviceFetchQueue,
    m_failedV2DeviceFetch,
    m_deviceIdToExternalId,      \* set of mapped device ids (identity map)
    m_v2DeviceInfoCache,         \* device -> [present, meta]
    m_v2Devices,                 \* device -> [present, meta]
    m_v2DeviceChannels,          \* device -> sequence of channel ids
    m_channelBindings,           \* set of <<device, channel>> bound to a light
    m_knownDeviceExternalIds,
    m_v2ResyncTimer,             \* TRUE while the single-shot timer is armed
    m_v2DeviceFetchTimer,        \* TRUE while the spacing timer is armed
    m_pendingV2ResyncReason,     \* "" when cleared
    resyncStarts,                \* calls of m_v2ResyncTimer.start() since it was idle
    m_dialResetTimers,           \* device -> [pending timeouts, interval in ms]
    m_buttonMultiPress,          \* device -> [count, timer]
    \* ---- the network and the Qt event loop
    sendTimers,                  \* type -> pending QTimer::singleShot(sendRequest)
    inFlight,                    \* type -> snapshot GETs awaiting a reply
    devInFlight,                 \* device -> device GETs awaiting a reply
    putsSent,                    \* device -> PUT requests sent for its light
    out,                         \* signals emitted by the last handler, in order
    \* ---- history
    announced,                   \* devices the host was told of and not told removed
    removed,                     \* devices told removed and not announced since
    lastBuilt,                   \* arrays of the last completed rebuild
    removedWhileFetching,        \* a rebuild emitted deviceRemoved with a fetch underway
    blockedPass,                 \* the handler's rebuild pass that met unresolved metadata
    topoDirty,                   \* a topology delta arrived after the last resync start
    gaveUp,                      \* types that exhausted their retries this cycle
    retryLog,                    \* type -> its failures of the cycle since it was last
                                 \* answered: the delay of each retry, 0 = gave up, and
                                 \* -1 = answered after that
    atCycleStart,                \* channel lists and known set when the cycle began
    cycles, events, snapFailures, devFailures, commands,
    \* ---- HueAdapter: the event stream connection
    m_eventStreamReply,          \* TRUE while a stream reply exists
    m_eventStreamRetryCount,
    m_eventStreamRetryTimer,     \* TRUE while the slow retry timer is armed
    m_supportsV2Events,
    m_eventStreamErrorSuppressCount,
    streamStarts,                \* pending single-shot calls of startEventStream
    streamEnds,
    suppressResets,              \* pending single-shot resets of the suppress count
    fastReconnects,              \* single-shot reconnects scheduled since data last came
    \* ---- button presses
    buttonEvents,                \* button events handled
    burst,                       \* short releases since the window last expired
    reported,                    \* button.last_event of the last button event handled
    \* ---- dial turns
    dialEvents,                  \* relative_rotary events handled
    rotation,                    \* the last one: direction, steps, timer armed on arrival
    \* ---- device renames
    rename,                      \* m_pendingRenameCommands, m_pendingRenameVerifications,
                                 \* m_activeRenameFetches, m_renameVerifyTimers, and the
                                 \* cmdResult signals of the last handler
    cmdResults,                  \* cmd id -> cmdResult signals emitted for it so far
    lastCmd,                     \* the highest cmd id the host has used
    renames,                     \* updateDeviceName calls
    \* ---- channel writes
    invoked,                     \* the sidecar's last onChannelInvoke: request and outcome
    written,                     \* the adapter's last ct write: value and mirek sent
    invokes,                     \* channel writes and adapter actions handled
    m_v2Scenes,                  \* scene id -> [present, name]
    m_sceneSnapshotDirty,        \* a scene snapshot arrived since the last rebuild
    hostScenes,                  \* the scenes of the last scenesUpdated
    connNotes,                   \* connectionStateChanged signals so far: the last value
                                 \* and whether each differed from the one before
    sc_connNotes,                \* the same for the sidecar's messages
    buttonResources,             \* control ids of the button resources of one device
    adapterButtons,              \* the button channels HueAdapter builds from them
    sidecarButtons,              \* the button channels buildSnapshot builds from them
    putReplies,                  \* device -> replies handled to the PUTs for its light
    \* ---- the bytes of the event stream
    wire,                        \* tokens the bridge has written and no readyRead has read
    framesSent,                  \* frames the bridge has written
    frameValid,                  \* frame -> its payload is valid JSON
    handled,                     \* frame -> calls of handleEventStreamEventObject for it
    \* ---- rooms and zones
    roomData,                    \* the bridge's /resource/room array
    zoneData,                    \* the bridge's /resource/zone array
    m_v2RoomMemberships,         \* room id -> member devices, <<>> when absent
    adapterGroups,               \* roomUpdated and groupUpdated of HueAdapter's rebuild
    sidecarGroups,               \* rooms and groups of the snapshot buildSnapshot returns
    groupDelta,                  \* the last room or zone update event: its number and object
    \* ---- HueSidecar members (src/src/hue_sidecar.h:70-86)
    sc_connected,
    sc_devices,                  \* m_devices: device -> [present, meta, channels]
    sc_out,
    sc_failed,                   \* types whose fetch failed in the last poll
    sc_lights,                   \* m_lightResourceByDevice: devices with a light id
    sc_rooms,                    \* m_knownRooms
    hostRooms,                   \* rooms the host was told of and not told removed
    hostClass,                   \* per device: the class the host was last told
    polls

adapterVars ==
    <<m_connected, m_stopping, m_v2SnapshotPending, m_v2BootstrapDone, m_v2SnapshotFailedThisCycle,
      m_v2SnapshotByType, m_pendingV2ResourceTypes, m_v2ResourceRetryCount,
      m_pendingV2DeviceFetch, m_v2DeviceFetchQueue, m_failedV2DeviceFetch,
      m_deviceIdToExternalId, m_v2DeviceInfoCache, m_v2Devices, m_v2DeviceChannels,
      m_channelBindings, m_knownDeviceExternalIds, m_v2ResyncTimer, m_v2DeviceFetchTimer,
      m_pendingV2ResyncReason, resyncStarts,
      m_dialResetTimers,
      m_buttonMultiPress, sendTimers, inFlight, devInFlight, putsSent, out,
      announced, removed, lastBuilt, removedWhileFetching, blockedPass, topoDirty, gaveUp, retryLog,
      atCycleStart, m_v2Scenes, m_sceneSnapshotDirty, hostScenes, connNotes,
      cycles, events, snapFailures, devFailures, commands>>

sidecarVars ==
    <<sc_connected, sc_devices, sc_out, sc_failed, sc_lights, sc_rooms, hostRooms, hostClass,
      sc_connNotes, polls>>

streamVars ==
    <<m_eventStreamReply, m_eventStreamRetryCount, m_eventStreamRetryTimer,
      m_supportsV2Events, m_eventStreamErrorSuppressCount, streamStarts, streamEnds,
      suppressResets, fastReconnects>>

\* Button events handled, the short releases since the last expiry of the
\* multi-press window, and the last event.
buttonVars == <<buttonEvents, burst, reported>>

dialVars == <<dialEvents, rotation>>

renameVars == <<rename, cmdResults, lastCmd, renames>>

writeVars == <<invoked, written, invokes>>

namingVars == <<buttonResources, adapterButtons, sidecarButtons>>

putVars == <<putReplies>>

modeVars == <<followedTypes, bridgeDevices>>

groupVars ==
    <<roomData, zoneData, m_v2RoomMemberships, adapterGroups, sidecarGroups, groupDelta>>
wireVars == <<wire, framesSent, frameValid, handled>>
restVars == <<namingVars, putVars, modeVars, groupVars, wireVars>>

featureVars == <<buttonVars, dialVars, renameVars, writeVars, restVars>>

\* What the handlers of the snapshot engine leave alone.
otherVars == <<sidecarVars, streamVars, featureVars>>

vars == <<adapterVars, otherVars>>

(***************************************************************************)
(* Values.                                                                  *)
(***************************************************************************)
EmptyMeta == <<>>
NoDevice == [present |-> FALSE, meta |-> EmptyMeta]
NoArray == [present |-> FALSE, data |-> {}]
NoTracker == [count |-> 0, timer |-> FALSE]
NoTimer == [pending |-> 0, interval |-> 0]

\* attachServiceRefs: every modelled device lists services, so the stored
\* metadata is the payload plus the derived "serviceRefs" entry.
attachServiceRefs(payload) == Append(payload, "serviceRefs")

\* QHash::value(): a missing key reads as an empty array.
Value(s, t) == s.m_v2SnapshotByType[t].data

\* The set of elements of a sequence.
Range(q) == {q[i] : i \in 1..Len(q)}

\* Devices in the fixed order in which the model walks a QHash's keys.
DeviceOrder == <<"d1", "d2", "d3", "d4", "d5", "d6">>

(***************************************************************************)
(* The adapter as a record, so that handlers compose.                       *)
(***************************************************************************)
St ==
    [m_connected |-> m_connected,
     m_stopping |-> m_stopping,
     m_v2SnapshotPending |-> m_v2SnapshotPending,
     m_v2BootstrapDone |-> m_v2BootstrapDone,
     m_v2SnapshotFailedThisCycle |-> m_v2SnapshotFailedThisCycle,
     m_v2SnapshotByType |-> m_v2SnapshotByType,
     m_pendingV2ResourceTypes |-> m_pendingV2ResourceTypes,
     m_v2ResourceRetryCount |-> m_v2ResourceRetryCount,
     m_pendingV2DeviceFetch |-> m_pendingV2DeviceFetch,
     m_v2DeviceFetchQueue |-> m_v2DeviceFetchQueue,
     m_failedV2DeviceFetch |-> m_failedV2DeviceFetch,
     m_deviceIdToExternalId |-> m_deviceIdToExternalId,
     m_v2DeviceInfoCache |-> m_v2DeviceInfoCache,
     m_v2Devices |-> m_v2Devices,
     m_v2DeviceChannels |-> m_v2DeviceChannels,
     m_channelBindings |-> m_channelBindings,
     m_knownDeviceExternalIds |-> m_knownDeviceExternalIds,
     m_v2ResyncTimer |-> m_v2ResyncTimer,
     m_v2DeviceFetchTimer |-> m_v2DeviceFetchTimer,
     m_pendingV2ResyncReason |-> m_pendingV2ResyncReason,
     resyncStarts |-> resyncStarts,
     m_dialResetTimers |-> m_dialResetTimers,
     m_buttonMultiPress |-> m_buttonMultiPress,
     sendTimers |-> sendTimers,
     inFlight |-> inFlight,
     devInFlight |-> devInFlight,
     putsSent |-> putsSent,
     out |-> <<>>,
     lastBuilt |-> lastBuilt,
     removedWhileFetching |-> removedWhileFetching,
     blockedPass |-> [blocked |-> FALSE, out |-> <<>>],
     topoDirty |-> topoDirty,
     gaveUp |-> gaveUp,
     retryLog |-> retryLog,
     atCycleStart |-> atCycleStart,
     m_v2Scenes |-> m_v2Scenes,
     m_sceneSnapshotDirty |-> m_sceneSnapshotDirty]

\* emit <signal>(...): append to the handler's output.
Emit(s, sig) == [s EXCEPT !.out = Append(@, sig)]

DeviceUpdatedSig(d, meta, channels) ==
    [sig |-> "deviceUpdated", dev |-> d, meta |-> meta, channels |-> channels]
DeviceRemovedSig(d) == [sig |-> "deviceRemoved", dev |-> d]
ChannelStateSig(d, ch) == [sig |-> "channelStateUpdated", dev |-> d, channel |-> ch]
\* channelStateUpdated with the value it carries: a button's event code, a
\* dial's signed steps.
ChannelValueSig(d, ch, code) ==
    [sig |-> "channelStateUpdated", dev |-> d, channel |-> ch, value |-> code]
FullSyncCompletedSig == [sig |-> "fullSyncCompleted"]
ConnectionSig(c) == [sig |-> "connectionStateChanged", connected |-> c]

\* The host's view after a handler's signals, folded in emission order:
\* announced are the devices it holds, removed the devices it held, was told
\* removed and has not been told of since.
RECURSIVE HostViewAfter(_, _)
HostViewAfter(view, sigs) ==
    IF sigs = <<>> THEN view
    ELSE LET h == Head(sigs) IN
         HostViewAfter(
             IF h.sig = "deviceUpdated"
             THEN [announced |-> view.announced \cup {h.dev},
                   removed |-> view.removed \ {h.dev}]
             ELSE IF h.sig = "deviceRemoved" /\ h.dev \in view.announced
             THEN [announced |-> view.announced \ {h.dev},
                   removed |-> view.removed \cup {h.dev}]
             ELSE view,
             Tail(sigs))

HostView == [announced |-> announced, removed |-> removed]

\* The connection notifications so far, after the signals sigs in order: last
\* is the value of the latest one, FALSE while there is none, so that a first
\* notification of true differs from it; alternating tells whether every
\* notification differed from the one before.
NoNotes == [last |-> FALSE, alternating |-> TRUE]
RECURSIVE NotesAfter(_, _)
NotesAfter(notes, sigs) ==
    IF sigs = <<>> THEN notes
    ELSE LET h == Head(sigs)
         IN  NotesAfter(IF h.sig = "connectionStateChanged"
                        THEN [last |-> h.connected,
                              alternating |-> notes.alternating /\ h.connected # notes.last]
                        ELSE notes,
                        Tail(sigs))

\* The scenes the host holds after a handler's signals: those of the last
\* scenesUpdated, or the ones it held.
RECURSIVE HostScenesAfter(_, _)
HostScenesAfter(held, sigs) ==
    IF sigs = <<>> THEN held
    ELSE HostScenesAfter(IF Head(sigs).sig = "scenesUpdated" THEN Head(sigs).scenes ELSE held,
                         Tail(sigs))

\* Write a handler's result back; the history follows the emitted signals.
Commit(s) ==
    \E r \in {s} :
        /\ m_connected' = r.m_connected
        /\ m_stopping' = r.m_stopping
        /\ m_v2SnapshotPending' = r.m_v2SnapshotPending
        /\ m_v2BootstrapDone' = r.m_v2BootstrapDone
        /\ m_v2SnapshotFailedThisCycle' = r.m_v2SnapshotFailedThisCycle
        /\ m_v2SnapshotByType' = r.m_v2SnapshotByType
        /\ m_pendingV2ResourceTypes' = r.m_pendingV2ResourceTypes
        /\ m_v2ResourceRetryCount' = r.m_v2ResourceRetryCount
        /\ m_pendingV2DeviceFetch' = r.m_pendingV2DeviceFetch
        /\ m_v2DeviceFetchQueue' = r.m_v2DeviceFetchQueue
        /\ m_failedV2DeviceFetch' = r.m_failedV2DeviceFetch
        /\ m_deviceIdToExternalId' = r.m_deviceIdToExternalId
        /\ m_v2DeviceInfoCache' = r.m_v2DeviceInfoCache
        /\ m_v2Devices' = r.m_v2Devices
        /\ m_v2DeviceChannels' = r.m_v2DeviceChannels
        /\ m_channelBindings' = r.m_channelBindings
        /\ m_knownDeviceExternalIds' = r.m_knownDeviceExternalIds
        /\ m_v2ResyncTimer' = r.m_v2ResyncTimer
        /\ m_v2DeviceFetchTimer' = r.m_v2DeviceFetchTimer
        /\ m_pendingV2ResyncReason' = r.m_pendingV2ResyncReason
        /\ resyncStarts' = r.resyncStarts
        /\ m_dialResetTimers' = r.m_dialResetTimers
        /\ m_buttonMultiPress' = r.m_buttonMultiPress
        /\ sendTimers' = r.sendTimers
        /\ inFlight' = r.inFlight
        /\ devInFlight' = r.devInFlight
        /\ putsSent' = r.putsSent
        /\ out' = r.out
        /\ lastBuilt' = r.lastBuilt
        /\ removedWhileFetching' = r.removedWhileFetching
        /\ blockedPass' = r.blockedPass
        /\ topoDirty' = r.topoDirty
        /\ gaveUp' = r.gaveUp
        /\ retryLog' = r.retryLog
        /\ atCycleStart' = r.atCycleStart
        /\ m_v2Scenes' = r.m_v2Scenes
        /\ m_sceneSnapshotDirty' = r.m_sceneSnapshotDirty
        /\ hostScenes' = HostScenesAfter(hostScenes, r.out)
        /\ connNotes' = NotesAfter(connNotes, r.out)
        /\ announced' = HostViewAfter(HostView, r.out).announced
        /\ removed' = HostViewAfter(HostView, r.out).removed

(***************************************************************************)
(* HueAdapter helpers.                                                      *)
(***************************************************************************)
\* The same without the comparison with m_connected.
setConnectedAnew(s, connected) ==
    Emit([s EXCEPT !.m_connected = connected], ConnectionSig(connected))

setConnected(s, connected) ==
    IF s.m_connected = connected THEN s
    ELSE Emit([s EXCEPT !.m_connected = connected], ConnectionSig(connected))

startV2DeviceFetch(s, deviceId) ==
    [s EXCEPT !.m_pendingV2DeviceFetch = @ \cup {deviceId},
              !.devInFlight[deviceId] = @ + 1]

\* The same without the look into the queue.
fetchV2DeviceResourceUnqueued(s, deviceId) ==
    IF deviceId \in s.m_failedV2DeviceFetch THEN s
    ELSE IF deviceId \in s.m_pendingV2DeviceFetch THEN s
    ELSE IF Cardinality(s.m_pendingV2DeviceFetch) >= kMaxConcurrentV2DeviceFetch
         THEN [s EXCEPT !.m_v2DeviceFetchQueue = Append(@, deviceId)]
    ELSE startV2DeviceFetch(s, deviceId)

\* The same with the cap compared one too late.
fetchV2DeviceResourceOverCap(s, deviceId) ==
    IF deviceId \in s.m_failedV2DeviceFetch THEN s
    ELSE IF deviceId \in s.m_pendingV2DeviceFetch THEN s
    ELSE IF deviceId \in Range(s.m_v2DeviceFetchQueue) THEN s
    ELSE IF Cardinality(s.m_pendingV2DeviceFetch) > kMaxConcurrentV2DeviceFetch
         THEN [s EXCEPT !.m_v2DeviceFetchQueue = Append(@, deviceId)]
    ELSE startV2DeviceFetch(s, deviceId)

fetchV2DeviceResource(s, deviceId) ==
    IF deviceId \in s.m_failedV2DeviceFetch THEN s
    ELSE IF deviceId \in s.m_pendingV2DeviceFetch THEN s
    ELSE IF deviceId \in Range(s.m_v2DeviceFetchQueue) THEN s
    ELSE IF Cardinality(s.m_pendingV2DeviceFetch) >= kMaxConcurrentV2DeviceFetch
         THEN [s EXCEPT !.m_v2DeviceFetchQueue = Append(@, deviceId)]
    ELSE startV2DeviceFetch(s, deviceId)

\* The while loop of startNextQueuedV2DeviceFetch: dequeues until one fetch
\* is started; skips failed and in-flight ids.
RECURSIVE stageOneQueuedFetch(_)
stageOneQueuedFetch(s) ==
    IF s.m_v2DeviceFetchQueue = <<>>
       \/ Cardinality(s.m_pendingV2DeviceFetch) >= kMaxConcurrentV2DeviceFetch
    THEN s
    ELSE LET deviceId == Head(s.m_v2DeviceFetchQueue)
             t == [s EXCEPT !.m_v2DeviceFetchQueue = Tail(@)]
         IN  IF deviceId \in t.m_failedV2DeviceFetch
                \/ deviceId \in t.m_pendingV2DeviceFetch
             THEN stageOneQueuedFetch(t)
             ELSE startV2DeviceFetch(t, deviceId)

\* After a start the spacing timer is armed if more can be started.
startNextQueuedV2DeviceFetch(s) ==
    LET t == stageOneQueuedFetch(s)
        started == t.m_pendingV2DeviceFetch # s.m_pendingV2DeviceFetch
    IN  IF /\ started
           /\ t.m_v2DeviceFetchQueue # <<>>
           /\ Cardinality(t.m_pendingV2DeviceFetch) < kMaxConcurrentV2DeviceFetch
           /\ ~t.m_v2DeviceFetchTimer
        THEN [t EXCEPT !.m_v2DeviceFetchTimer = TRUE]
        ELSE t

\* Resolves a resource's owner; maps an unknown owner and asks for its metadata.
deviceExternalIdFromV2Resource(s, owner) ==
    IF owner \notin s.m_deviceIdToExternalId
    THEN fetchV2DeviceResource([s EXCEPT !.m_deviceIdToExternalId = @ \cup {owner}], owner)
    ELSE IF s.m_v2DeviceInfoCache[owner].meta = EmptyMeta
         THEN fetchV2DeviceResource(s, owner)
         ELSE s


(***************************************************************************)
(* buildDevicesFromV2Snapshots, in the order of its sections.               *)
(***************************************************************************)
\* Apply f(s, d) to the devices of the sequence q, in order.
RECURSIVE ForEach(_, _, _)
ForEach(f(_, _), s, q) ==
    IF q = <<>> THEN s ELSE ForEach(f, f(s, Head(q)), Tail(q))

\* The members of a set of devices, in DeviceOrder.
InOrder(S) == SelectSeq(DeviceOrder, LAMBDA d : d \in S)

snapshotDeviceIdsOf(s) == {o.id : o \in Value(s, "device")}

\* Clears the derived maps, then 1) merges /resource/device into the cache.
mergeDeviceSnapshot(s) ==
    LET arr == Value(s, "device")
        ids == snapshotDeviceIdsOf(s)
        payload(d) == (CHOOSE o \in arr : o.id = d).meta
        cache == [d \in AllDevices |->
                    IF d \in ids
                    THEN [present |-> TRUE, meta |-> attachServiceRefs(payload(d))]
                    ELSE s.m_v2DeviceInfoCache[d]]
    IN  [s EXCEPT !.m_deviceIdToExternalId = ids \cup {d \in AllDevices : cache[d].present},
                  !.m_v2DeviceChannels = [d \in AllDevices |-> <<>>],
                  !.m_channelBindings = {},
                  !.m_v2DeviceInfoCache = cache,
                  !.m_v2Devices = cache]

\* 2) owners of service resources whose metadata is not cached.
missingOwners(s) ==
    {o \in Value(s, "light") \cup Value(s, "button") :
        /\ o \notin s.m_failedV2DeviceFetch
        /\ ~(s.m_v2DeviceInfoCache[o].present /\ s.m_v2DeviceInfoCache[o].meta # EmptyMeta)}

deviceForHueOwner(s, ownerId) ==
    IF ownerId \in s.m_deviceIdToExternalId /\ s.m_v2Devices[ownerId].present
    THEN s
    ELSE LET device == IF s.m_v2Devices[ownerId].present
                       THEN s.m_v2Devices[ownerId]
                       ELSE [present |-> TRUE, meta |-> EmptyMeta]
         IN  fetchV2DeviceResource(
                 [s EXCEPT !.m_v2Devices[ownerId] = device,
                           !.m_v2DeviceInfoCache[ownerId] = IF @.present THEN @ ELSE device,
                           !.m_deviceIdToExternalId = @ \cup {ownerId}],
                 ownerId)

\* 3) a light service gives its owner the "on" channel and its binding.
attachLight(s, ownerId) ==
    LET t == deviceForHueOwner(s, ownerId)
    IN  [t EXCEPT !.m_v2DeviceChannels[ownerId] = Append(@, "on"),
                  !.m_channelBindings = @ \cup {<<ownerId, "on">>}]

\* updateZigbeeDeviceDiscoveryMeta: the resource is stored in the metadata of
\* a cached device.
updateZigbeeDeviceDiscoveryMeta(s, deviceExternalId) ==
    IF ~s.m_v2DeviceInfoCache[deviceExternalId].present THEN s
    ELSE IF "zigbeeDeviceDiscovery" \in Range(s.m_v2DeviceInfoCache[deviceExternalId].meta)
    THEN s
    ELSE LET updated == [s.m_v2DeviceInfoCache[deviceExternalId] EXCEPT
                            !.meta = Append(@, "zigbeeDeviceDiscovery")]
         IN  [s EXCEPT !.m_v2DeviceInfoCache[deviceExternalId] = updated,
                       !.m_v2Devices[deviceExternalId] = updated]

\* 4) a zigbee_device_discovery resource has its owner resolved and stored
\* in the owner's metadata; it gives no channel.
attachDiscovery(s, ownerId) ==
    updateZigbeeDeviceDiscoveryMeta(deviceForHueOwner(s, ownerId), ownerId)

\* 5) one button resource gives its owner the unqualified "button" channel.
attachButton(s, ownerId) ==
    LET t == deviceForHueOwner(s, ownerId)
    IN  [t EXCEPT !.m_v2DeviceChannels[ownerId] = Append(@, "button")]

\* 5) a device whose metadata lists a relative_rotary service gets "dial".
devicesWithDial(s) ==
    {d \in AllDevices : /\ s.m_v2Devices[d].present
                     /\ Range(s.m_v2Devices[d].meta) \cap Metas # {}
                     /\ d = RotaryOwner}

attachDial(s, d) == [s EXCEPT !.m_v2DeviceChannels[d] = Append(@, "dial")]

attachServices(s) ==
    LET a == ForEach(attachLight, s, InOrder(Value(s, "light")))
        z == ForEach(attachDiscovery, a, InOrder(Value(a, "zigbee_device_discovery")))
        b == ForEach(attachButton, z, InOrder(Value(z, "button")))
    IN  ForEach(attachDial, b, InOrder(devicesWithDial(b)))

\* 6) a device with channels and no metadata blocks the pass.
devicesPendingMetadata(s) ==
    \E d \in AllDevices : /\ s.m_v2Devices[d].present
                       /\ s.m_v2DeviceChannels[d] # <<>>
                       /\ s.m_v2Devices[d].meta = EmptyMeta

emitDevice(s, d) ==
    IF ~s.m_v2Devices[d].present \/ s.m_v2DeviceChannels[d] = <<>> THEN s
    ELSE IF s.m_v2Devices[d].meta = EmptyMeta THEN fetchV2DeviceResource(s, d)
    ELSE Emit(s, DeviceUpdatedSig(d, s.m_v2Devices[d].meta, s.m_v2DeviceChannels[d]))

removeMissingDevice(s, extId) ==
    LET t == Emit(s, DeviceRemovedSig(extId))
    IN  [t EXCEPT !.removedWhileFetching =
                      @ \/ s.m_pendingV2DeviceFetch # {} \/ s.m_v2DeviceFetchQueue # <<>>,
                  !.m_v2Devices[extId] = NoDevice,
                  !.m_v2DeviceChannels[extId] = <<>>,
                  !.m_v2DeviceInfoCache[extId] = NoDevice]

removeMissingDevices(s) ==
    LET gone == s.m_knownDeviceExternalIds \ snapshotDeviceIdsOf(s)
        t == ForEach(removeMissingDevice, s, InOrder(gone))
    IN  [t EXCEPT !.m_knownDeviceExternalIds = snapshotDeviceIdsOf(s)]

\* 7) seed the channel values from the snapshot.
seedLight(s, ownerId) ==
    Emit(deviceForHueOwner(s, ownerId), ChannelStateSig(ownerId, "on"))

\* handleV2ButtonResource on a snapshot button: the owner is resolved; the
\* modelled snapshot buttons carry no last_event, so nothing is emitted.
seedButton(s, ownerId) == deviceExternalIdFromV2Resource(s, ownerId)

ScenesSig(scenes) == [sig |-> "scenesUpdated", scenes |-> scenes]

\* QString::trimmed on a scene name.
trimmedName(name) == IF name = " " THEN "" ELSE name

\* handleV2SceneResource on a scene object: a scene without an id is
\* ignored; the name of the object replaces the stored one unless it is
\* empty when trimmed; a scene whose name is then empty is ignored.
NoScene == [present |-> FALSE, name |-> ""]
handleV2SceneResource(scenes, resObj) ==
    IF resObj.id = "" THEN scenes
    ELSE LET stored == scenes[resObj.id].name
             name == IF trimmedName(resObj.name) # "" THEN trimmedName(resObj.name)
                     ELSE stored
         IN  IF trimmedName(name) = "" THEN scenes
             ELSE [scenes EXCEPT ![resObj.id] = [present |-> TRUE, name |-> name]]

\* m_v2Scenes.values()
sceneValues(scenes) ==
    {[id |-> i, name |-> scenes[i].name] : i \in {k \in SceneIds : scenes[k].present}}

\* handleV2ResourceSnapshot's scene branch: the map is cleared and filled
\* from the objects of the array.
RECURSIVE scenesOfSnapshot(_, _)
scenesOfSnapshot(scenes, dataArr) ==
    IF dataArr = {} THEN scenes
    ELSE LET obj == CHOOSE o \in dataArr : TRUE
         IN  scenesOfSnapshot(handleV2SceneResource(scenes, obj), dataArr \ {obj})

\* The rebuild announces the scenes of a scene snapshot taken since the last
\* rebuild, unless there is none.
publishSceneSnapshot(s) ==
    IF ~s.m_sceneSnapshotDirty THEN s
    ELSE LET a == [s EXCEPT !.m_sceneSnapshotDirty = FALSE]
         IN  IF sceneValues(a.m_v2Scenes) # {}
             THEN Emit(a, ScenesSig(sceneValues(a.m_v2Scenes)))
             ELSE a

seedChannelState(s) ==
    LET a == ForEach(seedLight, s, InOrder(Value(s, "light")))
    IN  ForEach(seedButton, a, InOrder(Value(a, "button")))

ArraysUsed(s) == [t \in AllTypes |-> Value(s, t)]

completeRebuild(s) ==
    IF s.m_pendingV2DeviceFetch # {} \/ s.m_v2DeviceFetchQueue # <<>> THEN s
    ELSE Emit([publishSceneSnapshot(s) EXCEPT
                   !.m_v2BootstrapDone = TRUE,
                   !.lastBuilt = [set |-> TRUE, arrays |-> ArraysUsed(s)]],
              FullSyncCompletedSig)

emitAndReconcile(s) ==
    LET a == ForEach(emitDevice, s, InOrder(AllDevices))
    IN  IF devicesPendingMetadata(s) THEN a
        ELSE completeRebuild(seedChannelState(removeMissingDevices(a)))

\* What a pass emitted when its emit step met a device with channels and no
\* metadata: begun is the adapter at the start of the pass, atEmit at the emit
\* step, r at the return.
observePass(begun, atEmit, r) ==
    IF devicesPendingMetadata(atEmit)
    THEN [r EXCEPT !.blockedPass =
                       [blocked |-> TRUE,
                        out |-> SubSeq(r.out, Len(begun.out) + 1, Len(r.out))]]
    ELSE r

buildDevicesFromV2Snapshots(s) ==
    IF s.m_v2BootstrapDone THEN s
    ELSE LET a == mergeDeviceSnapshot(s)
         IN  IF missingOwners(a) # {}
             THEN ForEach(fetchV2DeviceResource, a, InOrder(missingOwners(a)))
             ELSE observePass(s, attachServices(a), emitAndReconcile(attachServices(a)))

finalizeDegraded(s) ==
    [s EXCEPT !.m_v2BootstrapDone = TRUE, !.m_v2SnapshotFailedThisCycle = FALSE]

finalizeV2SnapshotIfReady(s) ==
    IF /\ ~s.m_v2BootstrapDone
       /\ s.m_v2SnapshotPending = 0
       /\ s.m_pendingV2DeviceFetch = {}
       /\ s.m_v2DeviceFetchQueue = <<>>
    THEN IF s.m_v2SnapshotFailedThisCycle
         THEN finalizeDegraded(s)
         ELSE buildDevicesFromV2Snapshots(s)
    ELSE s


(***************************************************************************)
(* Snapshot cycle: start, requests, replies.                                *)
(***************************************************************************)
\* requestV2ResourceSnapshot's sendRequest lambda.
sendRequest(s, resourceType) ==
    IF resourceType \in s.m_pendingV2ResourceTypes THEN s
    ELSE [s EXCEPT !.m_pendingV2ResourceTypes = @ \cup {resourceType},
                   !.inFlight[resourceType] = @ + 1]

\* The stagger delay of the i-th resource type (kSnapshotStaggerMs apart).
StaggerDelay(i) == (i - 1) * kSnapshotStaggerMs + (IF Resources[i] = "button" THEN 1000 ELSE 0)

requestV2ResourceSnapshot(s, resourceType, delayMs) ==
    IF delayMs > 0
    THEN [s EXCEPT !.sendTimers[resourceType] = @ + 1]
    ELSE sendRequest(s, resourceType)

RECURSIVE requestSnapshotsFrom(_, _)
requestSnapshotsFrom(s, i) ==
    IF i > Len(Resources) THEN s
    ELSE requestSnapshotsFrom(
             requestV2ResourceSnapshot(s, Resources[i], StaggerDelay(i)), i + 1)

fetchV2ResourcesSnapshot(s) ==
    requestSnapshotsFrom(
        [s EXCEPT !.m_v2SnapshotByType = [t \in AllTypes |-> NoArray],
                  !.m_pendingV2DeviceFetch = {},
                  !.m_v2DeviceFetchQueue = <<>>,
                  !.m_failedV2DeviceFetch = {},
                  !.m_pendingV2ResourceTypes = {},
                  !.m_v2ResourceRetryCount = [t \in AllTypes |-> 0],
                  !.m_v2SnapshotFailedThisCycle = FALSE,
                  !.m_v2SnapshotPending = Len(Resources),
                  !.m_v2BootstrapDone = FALSE,
                  !.topoDirty = FALSE,
                  !.gaveUp = {},
                  !.retryLog = [t \in AllTypes |-> <<>>],
                  !.atCycleStart = [channels |-> s.m_v2DeviceChannels,
                                    known |-> s.m_knownDeviceExternalIds]],
        1)

\* The host is reachable: requestFullSync goes straight to the snapshot.
requestFullSync(s) == IF s.m_stopping THEN s ELSE fetchV2ResourcesSnapshot(s)

performScheduledV2SnapshotRefresh(s) ==
    IF s.m_stopping THEN s
    ELSE requestFullSync([s EXCEPT !.m_pendingV2ResyncReason = ""])

handleV2ResourceSnapshot(s, resourceType, dataArr) ==
    finalizeV2SnapshotIfReady(
        [s EXCEPT !.m_v2SnapshotByType[resourceType] = [present |-> TRUE, data |-> dataArr],
                  !.m_v2Scenes = IF resourceType = "scene"
                                 THEN scenesOfSnapshot([i \in SceneIds |-> NoScene], dataArr)
                                 ELSE @,
                  !.m_sceneSnapshotDirty = (resourceType = "scene") \/ @,
                  !.m_pendingV2ResourceTypes = @ \ {resourceType},
                  !.m_v2ResourceRetryCount[resourceType] = 0,
                  !.retryLog[resourceType] =
                      IF resourceType \in s.gaveUp THEN Append(@, -1) ELSE <<>>,
                  !.m_v2SnapshotPending = IF @ > 0 THEN @ - 1 ELSE @])

\* onNetworkReplyFinished, /clip/v2/resource/{type}, no error.
snapshotReplySucceeded(s, resourceType, dataArr) ==
    finalizeV2SnapshotIfReady(
        handleV2ResourceSnapshot(setConnected(s, TRUE), resourceType, dataArr))

\* onNetworkReplyFinished, /clip/v2/resource/{type}, error.
snapshotReplyFailed(s, resourceType) ==
    LET a == IF s.m_stopping THEN s ELSE setConnected(s, FALSE)
        b == [a EXCEPT !.m_pendingV2ResourceTypes = @ \ {resourceType}]
        attempt == b.m_v2ResourceRetryCount[resourceType]
        nextAttempt == attempt + 1
        delayMs == kV2ResourceRetryBaseDelayMs * nextAttempt
    IN  IF attempt < kMaxV2ResourceSnapshotRetries
        THEN requestV2ResourceSnapshot(
                 [b EXCEPT !.m_v2ResourceRetryCount[resourceType] = nextAttempt,
                           !.retryLog[resourceType] = Append(@, delayMs)],
                 resourceType, delayMs)
        ELSE finalizeV2SnapshotIfReady(
                 [b EXCEPT !.m_v2ResourceRetryCount[resourceType] = 0,
                           !.retryLog[resourceType] = Append(@, 0),
                           !.m_v2SnapshotFailedThisCycle = TRUE,
                           !.m_v2SnapshotByType[resourceType] = [present |-> TRUE, data |-> {}],
                           !.m_v2SnapshotPending = IF @ > 0 THEN @ - 1 ELSE @,
                           !.gaveUp = @ \cup {resourceType}])

\* onNetworkReplyFinished, the reply to a PUT on /clip/v2/resource/light/<id>,
\* no error: the path does not start with device/, so the reply is handed to
\* handleV2ResourceSnapshot with the resource type "light/<id>", which
\* stores its data under that key and counts the pending snapshots down.
putReplySucceeded(s) ==
    LET a == setConnected(s, TRUE)
        b == finalizeV2SnapshotIfReady(
                 [a EXCEPT !.m_v2SnapshotPending = IF @ > 0 THEN @ - 1 ELSE @])
    IN  finalizeV2SnapshotIfReady(b)

\* onNetworkReplyFinished, /clip/v2/resource/device/<id>, no error.
deviceReplySucceeded(s, deviceId, devObj) ==
    LET a == setConnected(s, TRUE)
        b == [a EXCEPT !.m_pendingV2DeviceFetch = @ \ {deviceId},
                       !.m_deviceIdToExternalId = @ \cup {deviceId}]
        device == b.m_v2DeviceInfoCache[deviceId]
        deviceChanged == device.meta # devObj
        stored == [present |-> TRUE, meta |-> attachServiceRefs(devObj)]
        c == [b EXCEPT !.m_v2DeviceInfoCache[deviceId] = stored,
                       !.m_v2Devices[deviceId] = stored]
        d == IF deviceChanged /\ c.m_v2BootstrapDone /\ c.m_v2DeviceChannels[deviceId] # <<>>
             THEN Emit(c, DeviceUpdatedSig(deviceId, stored.meta, c.m_v2DeviceChannels[deviceId]))
             ELSE c
    IN  finalizeV2SnapshotIfReady(startNextQueuedV2DeviceFetch(d))

\* onNetworkReplyFinished, /clip/v2/resource/device/<id>, error.
deviceReplyFailed(s, deviceId) ==
    LET a == IF s.m_stopping THEN s ELSE setConnected(s, FALSE)
    IN  startNextQueuedV2DeviceFetch(
            [a EXCEPT !.m_pendingV2DeviceFetch = @ \ {deviceId},
                      !.m_failedV2DeviceFetch = @ \cup {deviceId}])

\* The replies stop() finds under m_nam: one entry per outstanding request.
outstandingReplies(s) ==
    {r \in [kind : {"snapshot"}, id : ResourceTypes, nth : 1..MaxCycles] :
        r.nth <= s.inFlight[r.id]}
    \cup
    {r \in [kind : {"device"}, id : AllDevices, nth : 1..MaxCycles] :
        r.nth <= s.devInFlight[r.id]}

\* r->abort(): the reply finishes with OperationCanceledError inside the call.
abortReply(s, r) ==
    IF r.kind = "snapshot"
    THEN snapshotReplyFailed([s EXCEPT !.inFlight[r.id] = @ - 1], r.id)
    ELSE deviceReplyFailed([s EXCEPT !.devInFlight[r.id] = @ - 1], r.id)

\* stop(): replies gives m_nam's children in the order findChildren lists them.
\* The stagger and retry single-shots, the dial-reset timers and the
\* multi-press timers are not touched.
\* The stream reply is dropped by stopEventStream, in the Stop action.
stop(s, replies) ==
    LET a == [s EXCEPT !.m_stopping = TRUE, !.m_v2ResyncTimer = FALSE, !.resyncStarts = 0]
    IN  setConnected(ForEach(abortReply, a, replies), FALSE)

(***************************************************************************)
(* Device renames.  r is the record of the four rename members; r.out are   *)
(* the cmdResult signals of the handler.  A timer is 0 when idle and the    *)
(* interval it was started with when armed.                                 *)
(***************************************************************************)
CmdIds == 1..MaxRenames
CmdResultSig(id, status) == [sig |-> "cmdResult", id |-> id, status |-> status]

finishRenameCommand(r, deviceExtId, success) ==
    LET cmdId == r.m_pendingRenameCommands[deviceExtId]
    IN  IF cmdId = 0 THEN r
        ELSE [r EXCEPT !.m_pendingRenameCommands[deviceExtId] = 0,
                       !.out = Append(@, CmdResultSig(cmdId, IF success THEN "Success"
                                                             ELSE "Failure"))]

cancelRenameVerification(r, deviceExtId) ==
    [r EXCEPT !.m_renameVerifyTimers[deviceExtId] = 0,
              !.m_pendingRenameVerifications[deviceExtId] = -1,
              !.m_activeRenameFetches = @ \ {deviceExtId}]

completeRenameVerification(r, deviceExtId) ==
    IF r.m_pendingRenameVerifications[deviceExtId] < 0 THEN r
    ELSE cancelRenameVerification(finishRenameCommand(r, deviceExtId, TRUE), deviceExtId)

scheduleRenameVerification(r, stopping, deviceExtId, attempt) ==
    IF stopping THEN r
    ELSE IF r.m_pendingRenameVerifications[deviceExtId] >= attempt THEN r
    ELSE IF attempt >= kRenameVerifyMaxAttempts
         THEN cancelRenameVerification(finishRenameCommand(r, deviceExtId, FALSE), deviceExtId)
    ELSE [r EXCEPT !.m_pendingRenameVerifications[deviceExtId] = attempt,
                   !.m_renameVerifyTimers[deviceExtId] = kRenameVerifyDelayMs]

\* trimmed is the name after trimming; sent is sendV2ResourceUpdate's result.
updateDeviceName(r, stopping, deviceExtId, trimmed, cmdId, sent) ==
    IF trimmed = ""
    THEN IF cmdId # 0 THEN [r EXCEPT !.out = Append(@, CmdResultSig(cmdId, "InvalidArgument"))]
         ELSE r
    ELSE LET previousCmd == r.m_pendingRenameCommands[deviceExtId]
             a == IF cmdId # 0 /\ previousCmd # 0 /\ previousCmd # cmdId
                  THEN finishRenameCommand(r, deviceExtId, FALSE)
                  ELSE r
             b == IF cmdId # 0 THEN [a EXCEPT !.m_pendingRenameCommands[deviceExtId] = cmdId]
                  ELSE a
             c == cancelRenameVerification(b, deviceExtId)
         IN  IF sent THEN scheduleRenameVerification(c, stopping, deviceExtId, 0)
             ELSE IF cmdId # 0 THEN finishRenameCommand(c, deviceExtId, FALSE)
             ELSE c

\* The timeout lambda of a rename timer, its rename part: TRUE in .fetch
\* when fetchV2DeviceResource is to be called.
renameVerifyTimeout(r, stopping, deviceExtId) ==
    LET a == [r EXCEPT !.m_renameVerifyTimers[deviceExtId] = 0]
    IN  IF stopping \/ a.m_pendingRenameVerifications[deviceExtId] < 0
        THEN [r |-> a, fetch |-> FALSE]
        ELSE [r |-> [a EXCEPT !.m_activeRenameFetches = @ \cup {deviceExtId}], fetch |-> TRUE]

\* A device payload without metadata.name.
Unnamed == "m0"

\* onNetworkReplyFinished on a device reply without error, its rename part.
verifyRenameOnReply(r, stopping, deviceId, devObj) ==
    LET renameAttempt == deviceId \in r.m_activeRenameFetches
        attempt == r.m_pendingRenameVerifications[deviceId]
        a == IF ~renameAttempt THEN r
             ELSE IF devObj # <<Unnamed>> THEN completeRenameVerification(r, deviceId)
             ELSE IF attempt >= 0
                  THEN scheduleRenameVerification(r, stopping, deviceId, attempt + 1)
             ELSE r
    IN  [a EXCEPT !.m_activeRenameFetches = @ \ {deviceId}]

\* stop(), its rename part: the timers and the verifications are dropped,
\* the pending commands are kept.
stopRenames(r) ==
    [r EXCEPT !.m_renameVerifyTimers = [d \in AllDevices |-> 0],
              !.m_pendingRenameVerifications = [d \in AllDevices |-> -1],
              !.m_activeRenameFetches = {}]

(***************************************************************************)
(* Event stream, timers, channel writes.                                    *)
(***************************************************************************)
\* The reasons the event handlers give.
DeleteReason == "v2 delete event"
TopologyReason == "v2 event type device"
ResyncReasons == {DeleteReason, TopologyReason}
GroupReason(type) == IF type = "room" THEN "v2 event type room" ELSE "v2 event type zone"

\* The same without the look at the running timer.
scheduleV2SnapshotRefreshAnew(s, reason) ==
    IF s.m_stopping THEN s
    ELSE IF s.m_v2SnapshotPending > 0 THEN s
    ELSE [s EXCEPT !.m_pendingV2ResyncReason = reason,
                   !.m_v2ResyncTimer = TRUE,
                   !.resyncStarts = @ + 1]

scheduleV2SnapshotRefresh(s, reason) ==
    IF s.m_stopping THEN s
    ELSE IF s.m_v2SnapshotPending > 0 THEN s
    ELSE IF s.m_v2ResyncTimer THEN s
    ELSE [s EXCEPT !.m_pendingV2ResyncReason = reason,
                   !.m_v2ResyncTimer = TRUE,
                   !.resyncStarts = @ + 1]

handleV2DeleteEvent(s, deviceId) ==
    LET a == Emit([s EXCEPT !.m_deviceIdToExternalId = @ \ {deviceId}],
                  DeviceRemovedSig(deviceId))
    IN  [a EXCEPT !.m_v2Devices[deviceId] = NoDevice,
                  !.m_v2DeviceChannels[deviceId] = <<>>,
                  !.m_v2DeviceInfoCache[deviceId] = NoDevice,
                  !.m_knownDeviceExternalIds = @ \ {deviceId}]

handleV2LightResource(s, ownerId) ==
    Emit(deviceExternalIdFromV2Resource(s, ownerId), ChannelStateSig(ownerId, "on"))

\* Single-shot timers queued one per delta: each would fire on its own.
stackDialReset(s, deviceExtId) ==
    [s EXCEPT !.m_dialResetTimers[deviceExtId] = [pending |-> @.pending + 1, interval |-> 200]]

\* The device's one timer is stopped and started again.
scheduleDialReset(s, deviceExtId) ==
    [s EXCEPT !.m_dialResetTimers[deviceExtId] = [pending |-> 1, interval |-> 200]]

\* The timeout lambda scheduleDialReset connects to the device's timer.
dialResetTimeout(s, deviceExtId) ==
    LET a == [s EXCEPT !.m_dialResetTimers[deviceExtId] =
                           IF @.pending > 1 THEN [@ EXCEPT !.pending = @ - 1] ELSE NoTimer]
    IN  IF a.m_stopping THEN a ELSE Emit(a, ChannelValueSig(deviceExtId, "dial", 0))

\* direction and steps are relative_rotary.last_event.rotation's.
handleV2RelativeRotaryResource(s, ownerId, direction, steps) ==
    LET a == deviceExternalIdFromV2Resource(s, ownerId)
        signed == IF direction = "counter_clock_wise" THEN 0 - steps ELSE steps
    IN  IF steps = 0 \/ direction \notin {"clock_wise", "counter_clock_wise"}
        THEN a
        ELSE scheduleDialReset(Emit(a, ChannelValueSig(ownerId, "dial", signed)), ownerId)

\* The button.last_event strings the adapter recognises; any other maps to None.
mapHueV2ButtonEventToCode(event) ==
    CASE event = "initial_press" -> "InitialPress"
      [] event = "long_press" -> "LongPress"
      [] event = "repeat" -> "Repeat"
      [] event = "short_release" -> "ShortPressRelease"
      [] event = "long_release" -> "LongPressRelease"
      [] OTHER -> "None"

\* Counts the release and (re)starts the tracker's window timer.
handleShortPressRelease(s, deviceExtId) ==
    [s EXCEPT !.m_buttonMultiPress[deviceExtId] = [count |-> @.count + 1, timer |-> TRUE]]

\* The aggregated code finalizePendingShortPress picks for a count of 2 or more.
aggregatedCode(count) ==
    CASE count = 2 -> "DoublePress"
      [] count = 3 -> "TriplePress"
      [] count = 4 -> "QuadruplePress"
      [] OTHER -> "QuintuplePress"

finalizePendingShortPress(s, key) ==
    LET tracker == s.m_buttonMultiPress[key]
        a == [s EXCEPT !.m_buttonMultiPress[key] = NoTracker]
    IN  IF tracker.count < 2
        THEN a
        ELSE Emit(a, ChannelValueSig(key, "button", aggregatedCode(tracker.count)))

\* An aggregation that consumes what it counts: the counted short release
\* is not emitted on its own.
consumeCountedRelease(s, ownerId, lastEvent, gap) ==
    LET code == mapHueV2ButtonEventToCode(lastEvent)
        a == deviceExternalIdFromV2Resource(s, ownerId)
    IN  IF code = "None" THEN a
        ELSE IF code = "ShortPressRelease" THEN handleShortPressRelease(a, ownerId)
        ELSE Emit(a, ChannelValueSig(ownerId, "button", code))

\* lastEvent is the resource's button.last_event; gap is the event's
\* timestamp minus the tracker's lastTs, which is the timestamp of the last
\* counted release whenever the tracker's count is positive.
handleV2ButtonResource(s, ownerId, lastEvent, gap) ==
    LET code == mapHueV2ButtonEventToCode(lastEvent)
        a == deviceExternalIdFromV2Resource(s, ownerId)
        b == IF /\ code = "InitialPress"
                /\ a.m_buttonMultiPress[ownerId].count > 0
                /\ gap >= kButtonMultiPressResetGapMs
             THEN finalizePendingShortPress(a, ownerId)
             ELSE a
        c == IF code = "ShortPressRelease" THEN handleShortPressRelease(b, ownerId) ELSE b
    IN  IF code = "None" THEN a ELSE Emit(c, ChannelValueSig(ownerId, "button", code))

\* The state a channel write leaves: a PUT goes out iff the key is bound.
updateChannelState(s, deviceExternalId, channelExternalId) ==
    IF s.m_stopping THEN s
    ELSE IF <<deviceExternalId, channelExternalId>> \notin s.m_channelBindings THEN s
    ELSE [s EXCEPT !.putsSent[deviceExternalId] = @ + 1]


(***************************************************************************)
(* HueSidecar: buildSnapshot, publishSnapshot, pollBridge, tick.            *)
(***************************************************************************)
\* The class of a device the host does not hold.
NoClass == "None"

NoEntry == [present |-> FALSE, meta |-> EmptyMeta, channels |-> <<>>, cls |-> "Unknown"]

\* The resource types pollBridge fetches, in fetch order; "room" stands for
\* the room, zone and scene fetches, which are handled alike.
SidecarTypes == <<"device", "light", "button", "room">>

\* A fetch result: failed, or the data array of the reply.
FetchFailed == [ok |-> FALSE, data |-> {}]
FetchResults(t) ==
    {FetchFailed} \cup
    {[ok |-> TRUE, data |-> arr] :
        arr \in IF t = "room" THEN {{}} ELSE ArraysOf(t)}

\* A missing device gets a placeholder of the fallback class; a device of
\* class Unknown takes a fallback class that is not Unknown.
ensureDevice(snapshot, deviceId, fallbackClass) ==
    IF ~snapshot[deviceId].present
    THEN [snapshot EXCEPT ![deviceId] =
             [present |-> TRUE, meta |-> EmptyMeta, channels |-> <<>>, cls |-> fallbackClass]]
    ELSE IF fallbackClass # "Unknown" /\ snapshot[deviceId].cls = "Unknown"
    THEN [snapshot EXCEPT ![deviceId].cls = fallbackClass]
    ELSE snapshot

\* upsertChannel on a channel id: replace in place or append.
upsertChannel(channels, channelId) ==
    IF channelId \in Range(channels) THEN channels ELSE Append(channels, channelId)

addChannel(snapshot, deviceId, channelId, fallbackClass) ==
    LET a == ensureDevice(snapshot, deviceId, fallbackClass)
    IN  [a EXCEPT ![deviceId].channels = upsertChannel(@, channelId)]

RECURSIVE addChannels(_, _, _, _)
addChannels(snapshot, owners, channelId, fallbackClass) ==
    IF owners = <<>> THEN snapshot
    ELSE addChannels(addChannel(snapshot, Head(owners), channelId, fallbackClass),
                     Tail(owners), channelId, fallbackClass)

\* buildSnapshot is stateless: the devices of deviceData, then the owners
\* of the lights ("on") and of the buttons (one button each: "button").
buildSnapshot(deviceData, lightData, buttonData) ==
    LET devices == [d \in Devices |->
                      IF \E o \in deviceData : o.id = d
                      THEN [present |-> TRUE,
                            meta |-> (CHOOSE o \in deviceData : o.id = d).meta,
                            channels |-> <<>>,
                            cls |-> "Unknown"]
                      ELSE NoEntry]
        lights == addChannels(devices, InOrder(lightData), "on", "Light")
    IN  addChannels(lights, InOrder(buttonData), "button", "Button")

\* sendDeviceUpdated: the device record carries its class.
ClassedDeviceSig(d, entry) ==
    [sig |-> "deviceUpdated", dev |-> d, meta |-> entry.meta, channels |-> entry.channels,
     cls |-> entry.cls]

RECURSIVE deviceSends(_, _)
deviceSends(snapshot, q) ==
    IF q = <<>> THEN <<>>
    ELSE LET d == Head(q)
             entry == snapshot[d]
             states == IF "on" \in Range(entry.channels)
                       THEN <<ChannelStateSig(d, "on")>> ELSE <<>>
         IN  <<ClassedDeviceSig(d, entry)>> \o states
             \o deviceSends(snapshot, Tail(q))

RECURSIVE removalSends(_)
removalSends(q) ==
    IF q = <<>> THEN <<>> ELSE <<DeviceRemovedSig(Head(q))>> \o removalSends(Tail(q))

\* The room ids of the bridge; zones and their groups are handled alike.
Rooms == {"r1", "r2"}
RoomArrays == SUBSET Rooms
RoomOrder == <<"r1", "r2">>
RoomSig(kind, r) == [sig |-> kind, room |-> r]

\* One message of the given kind for each room of S, in order.
roomSends(kind, S) ==
    LET Msg(r) == <<RoomSig(kind, r)>>
        In(r) == r \in S
    IN  IF SelectSeq(RoomOrder, In) = <<>> THEN <<>>
        ELSE IF Len(SelectSeq(RoomOrder, In)) = 1 THEN Msg(SelectSeq(RoomOrder, In)[1])
        ELSE Msg(RoomOrder[1]) \o Msg(RoomOrder[2])

(***************************************************************************)
(* The bytes of the event stream.  A frame is the line "data:<payload>\n";  *)
(* the model cuts it into the tokens prefix, p1 and p2 (the two halves of a *)
(* payload that is valid JSON) or bad (a payload that is not), and nl.  The *)
(* transport delivers the tokens in chunks cut at any token boundary.       *)
(***************************************************************************)
Frames == 1..MaxFrames
Token(k, part) == [frame |-> k, part |-> part]
FrameTokens(k, valid) ==
    IF valid THEN <<Token(k, "prefix"), Token(k, "p1"), Token(k, "p2"), Token(k, "nl")>>
    ELSE <<Token(k, "prefix"), Token(k, "bad"), Token(k, "nl")>>

\* chunk.split('\n')
RECURSIVE splitLines(_, _)
splitLines(chunk, line) ==
    IF chunk = <<>> THEN <<line>>
    ELSE IF Head(chunk).part = "nl" THEN <<line>> \o splitLines(Tail(chunk), <<>>)
    ELSE splitLines(Tail(chunk), Append(line, Head(chunk)))

\* QJsonDocument::fromJson reports no error: the text is one whole payload.
validJson(json) ==
    /\ Len(json) = 2
    /\ json[1].part = "p1"
    /\ json[2].part = "p2"
    /\ json[1].frame = json[2].frame

\* The frames whose event object onEventStreamReadyRead hands on for the
\* lines given: the lines that start with "data:" and whose rest parses.
RECURSIVE framesHandledIn(_)
framesHandledIn(lines) ==
    IF lines = <<>> THEN <<>>
    ELSE LET line == Head(lines)
             json == IF line # <<>> /\ line[1].part = "prefix" THEN Tail(line) ELSE <<>>
         IN  (IF json # <<>> /\ validJson(json) THEN <<json[1].frame>> ELSE <<>>)
             \o framesHandledIn(Tail(lines))

(***************************************************************************)
(* Rooms and zones with their members.  A resource object holds its id, the *)
(* keys it contains and its services and children arrays, each a list of    *)
(* references [rtype, rid]; an array the object does not contain reads as   *)
(* empty (toArray()).  A device's external id is its v2 id.                 *)
(***************************************************************************)
Zones == {"z1"}
MemberRooms == {"r1"}
ArrayKeys == {"services", "children"}
Ref(rtype, rid) == [rtype |-> rtype, rid |-> rid]
DeviceRefs == {Ref("device", d) : d \in Devices}
ZoneRefs == DeviceRefs \cup {Ref("room", r) : r \in MemberRooms}
NoDuplicates(q) == \A i, j \in DOMAIN q : q[i] = q[j] => i = j
\* The arrays of at most n distinct references of S.
ListsOf(S, n) == {q \in UNION {[1..k -> S] : k \in 0..n} : NoDuplicates(q)}

\* Objects with the given ids whose arrays hold references of refs.
GroupObjects(ids, refs) ==
    {o \in [id : ids, keys : SUBSET ArrayKeys,
            services : ListsOf(refs, MaxServiceRefs), children : ListsOf(refs, MaxChildRefs)] :
        /\ "services" \notin o.keys => o.services = <<>>
        /\ "children" \notin o.keys => o.children = <<>>}
\* The objects of a snapshot carry both arrays, those of an update event
\* the keys that changed.
RoomDeltas == GroupObjects(MemberRooms, DeviceRefs)
ZoneDeltas == GroupObjects(Zones, ZoneRefs)
RoomObjects == {o \in RoomDeltas : o.keys = ArrayKeys}
ZoneObjects == {o \in ZoneDeltas : o.keys = ArrayKeys}
GroupArrays(objects) == {<<>>} \cup {<<o>> : o \in objects}

NoMemberships == [r \in Rooms |-> <<>>]
NotGrouped == <<[sig |-> "none"]>>
NoDelta == [n |-> 0, type |-> "none", keys |-> ArrayKeys]
MembersSig(kind, id, members) == [sig |-> kind, room |-> id, members |-> members]

\* addMember of the room and zone handlers.
addMember(memberDevices, extId) ==
    IF extId = "" \/ extId \in Range(memberDevices) THEN memberDevices
    ELSE Append(memberDevices, extId)

\* bindDevices of handleV2RoomResource.
RECURSIVE bindDevices(_, _)
bindDevices(memberDevices, arr) ==
    IF arr = <<>> THEN memberDevices
    ELSE bindDevices(IF Head(arr).rtype # "device" \/ Head(arr).rid = ""
                     THEN memberDevices ELSE addMember(memberDevices, Head(arr).rid),
                     Tail(arr))

\* The room and zone handlers work on g = [m_v2RoomMemberships, out].
handleV2RoomResource(g, resObj) ==
    IF resObj.id = "" THEN g
    ELSE LET memberDevices == bindDevices(bindDevices(<<>>, resObj.services), resObj.children)
         IN  [m_v2RoomMemberships |-> [g.m_v2RoomMemberships EXCEPT ![resObj.id] = memberDevices],
              out |-> Append(g.out, MembersSig("roomUpdated", resObj.id, memberDevices))]

\* deviceExtIdForResource for the reference types of the model.
deviceExtIdForResource(resourceType, resourceId) ==
    IF resourceType = "" \/ resourceId = "" THEN ""
    ELSE IF resourceType = "device" THEN resourceId ELSE ""

\* bindResources of handleV2ZoneResource; memberships is m_v2RoomMemberships.
RECURSIVE bindResources(_, _, _)
bindResources(memberDevices, arr, memberships) ==
    IF arr = <<>> THEN memberDevices
    ELSE LET type == Head(arr).rtype
             rid == Head(arr).rid
             bound == IF rid = "" THEN memberDevices
                      ELSE IF type = "device" THEN addMember(memberDevices, rid)
                      ELSE IF type = "room"
                      THEN ForEach(addMember, memberDevices,
                                   IF rid \in DOMAIN memberships THEN memberships[rid] ELSE <<>>)
                      ELSE addMember(memberDevices, deviceExtIdForResource(type, rid))
         IN  bindResources(bound, Tail(arr), memberships)

handleV2ZoneResource(g, resObj) ==
    IF resObj.id = "" THEN g
    ELSE LET memberDevices ==
                 bindResources(bindResources(<<>>, resObj.services, g.m_v2RoomMemberships),
                               resObj.children, g.m_v2RoomMemberships)
         IN  [g EXCEPT !.out = Append(@, MembersSig("groupUpdated", resObj.id, memberDevices))]

\* buildDevicesFromV2Snapshots: m_v2RoomMemberships.clear(), then
\* buildRoomsFromV2Snapshot and buildGroupsFromV2Snapshot.
buildGroupsFromV2Snapshots(rooms, zones) ==
    ForEach(handleV2ZoneResource,
            ForEach(handleV2RoomResource,
                    [m_v2RoomMemberships |-> NoMemberships, out |-> <<>>], rooms),
            zones)

\* buildSnapshot's collectMemberships: the device references among the
\* children of every object with an id.
RECURSIVE childDevices(_)
childDevices(children) ==
    IF children = <<>> THEN <<>>
    ELSE (IF Head(children).rtype = "device" /\ Head(children).rid # ""
          THEN <<Head(children).rid>> ELSE <<>>) \o childDevices(Tail(children))

\* buildSnapshot's rooms and groups, as the messages publishSnapshot makes
\* of them.
RECURSIVE snapshotGroups(_, _)
snapshotGroups(kind, arr) ==
    IF arr = <<>> THEN <<>>
    ELSE (IF Head(arr).id = "" THEN <<>>
          ELSE <<MembersSig(kind, Head(arr).id, childDevices(Head(arr).children))>>)
         \o snapshotGroups(kind, Tail(arr))

sidecarGroupsOf(rooms, zones) ==
    snapshotGroups("roomUpdated", rooms) \o snapshotGroups("groupUpdated", zones)

(***************************************************************************)
(* Button channel naming.  The button resources one device owns are given  *)
(* by their metadata.control_id, in array order and distinct; a resource    *)
(* without control_id reads as 0 (toInt(0)).                                *)
(***************************************************************************)
ControlIds == 0..MaxControlId
ButtonLists ==
    {q \in UNION {[1..n -> ControlIds] : n \in 1..MaxButtons} :
        \A i, j \in DOMAIN q : q[i] = q[j] => i = j}
NotBuilt == <<"none">>

\* QStringLiteral("button%1").arg(controlId)
buttonChannelId(controlId) ==
    <<"button1", "button2", "button3", "button4", "button5">>[controlId]

\* HueAdapter::buildDevicesFromV2Snapshots, step 5: a control id of 0 or
\* less counts as 1; every entry is appended to the device's channels.
adapterButtonChannels(controlIds) ==
    LET entries == [i \in DOMAIN controlIds |->
                       IF controlIds[i] <= 0 THEN 1 ELSE controlIds[i]]
        singleButton == Len(entries) <= 1
    IN  [i \in DOMAIN entries |->
            IF singleButton THEN "button" ELSE buttonChannelId(entries[i])]

\* buildSnapshot's button loop: "button" for a single entry and for a
\* control id of 0, upserted into the device's channels.
RECURSIVE sidecarUpsertButtons(_, _, _)
sidecarUpsertButtons(channels, entries, singleButton) ==
    IF entries = <<>> THEN channels
    ELSE sidecarUpsertButtons(
             upsertChannel(channels,
                           IF ~singleButton /\ Head(entries) > 0
                           THEN buttonChannelId(Head(entries)) ELSE "button"),
             Tail(entries), singleButton)

sidecarButtonChannels(controlIds) ==
    sidecarUpsertButtons(<<>>, controlIds, Len(controlIds) = 1)


\* buildSnapshot's scene loop: every scene object with an id.
snapshotScenes(sceneData) == {o \in sceneData : o.id # ""}


\* HueSidecar::setConnectionState: the message it sends when current is
\* m_connected.
setConnectionState(current, connected) ==
    IF current = connected THEN <<>> ELSE <<ConnectionSig(connected)>>

\* The messages publishSnapshot sends, in order, when no send fails.
publishSends(devices, snapshot, knownRooms, rooms, scenes) ==
    removalSends(InOrder({d \in Devices : devices[d].present /\ ~snapshot[d].present}))
    \o deviceSends(snapshot, InOrder({d \in Devices : snapshot[d].present}))
    \o roomSends("roomUpdated", rooms)
    \o roomSends("roomRemoved", knownRooms \ rooms)
    \o <<ScenesSig(scenes)>>

\* pollBridge.  device, light, button and room give each fetch's outcome,
\* sceneData the scene array, sent the number of messages the host
\* connection accepts before a send fails.  The result is [ok, connected,
\* devices, lights, rooms, out, failed].
pollBridge(device, light, button, room, sceneData, sent) ==
    LET results == [device |-> device.ok, light |-> light.ok,
                    button |-> button.ok, room |-> room.ok]
        failed == {SidecarTypes[i] : i \in {k \in 1..Len(SidecarTypes) :
                                               ~results[SidecarTypes[k]]}}
        up == setConnectionState(sc_connected, TRUE)
        snapshot == buildSnapshot(device.data, light.data,
                                  IF button.ok THEN button.data ELSE {})
        gone == InOrder({d \in Devices : sc_devices[d].present /\ ~snapshot[d].present})
        sends == publishSends(sc_devices, snapshot, sc_rooms, room.data,
                              snapshotScenes(sceneData))
        told == {gone[i] : i \in {k \in 1..Len(gone) : k <= sent}}
    IN  IF failed \cap {"device", "light", "room"} # {}
        THEN [ok |-> FALSE, connected |-> sc_connected, devices |-> sc_devices,
              lights |-> sc_lights, rooms |-> sc_rooms, out |-> <<>>, failed |-> failed]
        ELSE IF sent < Len(sends)
        THEN [ok |-> FALSE, connected |-> sc_connected, devices |-> sc_devices,
              lights |-> sc_lights \ told, rooms |-> sc_rooms,
              out |-> SubSeq(sends, 1, sent), failed |-> failed]
        ELSE [ok |-> TRUE, connected |-> TRUE, devices |-> snapshot,
              lights |-> {d \in Devices : "on" \in Range(snapshot[d].channels)},
              rooms |-> room.data,
              out |-> sends \o up \o <<FullSyncCompletedSig>>, failed |-> failed]

\* tick with the poll due: pollBridge, then setConnectionState(false) when
\* the poll failed.
tickPoll(device, light, button, room, sceneData, sent) ==
    LET p == pollBridge(device, light, button, room, sceneData, sent)
        down == setConnectionState(sc_connected, FALSE)
    IN  IF p.ok THEN p ELSE [p EXCEPT !.connected = FALSE, !.out = @ \o down]

(***************************************************************************)
(* Channel writes.  A value is a ScalarValue (type bool, int, double or     *)
(* string), a valueJson ("json") or absent ("none"); numbers are held in    *)
(* tenths, so that 250.5 is 2505.                                           *)
(***************************************************************************)
Scalar(type, b, n, s) == [type |-> type, b |-> b, n |-> n, s |-> s]

InvokeValues ==
    {Scalar("none", FALSE, 0, ""), Scalar("bool", TRUE, 0, ""),
     Scalar("int", FALSE, 10, ""), Scalar("int", FALSE, 500, ""),
     Scalar("int", FALSE, 3000, ""), Scalar("int", FALSE, 20000, ""),
     Scalar("double", FALSE, 2505, ""), Scalar("string", FALSE, 0, "on"),
     Scalar("string", FALSE, 0, "zzzzzz"), Scalar("string", FALSE, 0, "#ff0000"),
     Scalar("json", FALSE, 0, "rgb")}

InvokeChannels == {"on", "bri", "ct", "color", "effect"}

Requests == [device : Devices, channel : InvokeChannels, value : InvokeValues]

hasScalarValue(value) == value.type \notin {"none", "json"}

scalarAsDouble(value) ==
    CASE value.type \in {"double", "int"} -> [ok |-> TRUE, n |-> value.n]
      [] value.type = "bool" -> [ok |-> TRUE, n |-> IF value.b THEN 10 ELSE 0]
      [] OTHER -> [ok |-> FALSE, n |-> 0]

scalarAsBool(value) ==
    CASE value.type = "bool" -> [ok |-> TRUE, b |-> value.b]
      [] value.type \in {"int", "double"} -> [ok |-> TRUE, b |-> value.n # 0]
      [] value.type = "string" /\ value.s \in {"1", "true", "on"} -> [ok |-> TRUE, b |-> TRUE]
      [] value.type = "string" /\ value.s \in {"0", "false", "off"} -> [ok |-> TRUE, b |-> FALSE]
      [] OTHER -> [ok |-> FALSE, b |-> FALSE]

\* Of the modelled strings, the one with six hex digits after the '#'.
parseHexColor(hex) == hex = "#ff0000"

\* The modelled valueJson is an object with finite r, g and b.
extractRgb(value) ==
    IF value.type = "string" THEN parseHexColor(value.s) ELSE value.type = "json"

Clamp(x, lo, hi) == IF x < lo THEN lo ELSE IF x > hi THEN hi ELSE x
\* std::round of a non-negative number of tenths.
Round(tenths) == (tenths + 5) \div 10

\* A PUT body: the "on" flag, the brightness in tenths or the mirek.
NoPayload == [kind |-> "none", on |-> FALSE, n |-> 0]
Built(kind, on, n) == [payload |-> [kind |-> kind, on |-> on, n |-> n], error |-> ""]
Fail(message) == [payload |-> NoPayload, error |-> message]

buildLightCommandPayload(channelExternalId, value) ==
    CASE channelExternalId = "on" ->
            IF ~hasScalarValue(value) THEN Fail("Expected boolean value")
            ELSE IF ~scalarAsBool(value).ok THEN Fail("Invalid boolean value")
            ELSE Built("on", scalarAsBool(value).b, 0)
      [] channelExternalId = "bri" ->
            IF ~hasScalarValue(value) THEN Fail("Expected numeric brightness")
            ELSE IF ~scalarAsDouble(value).ok THEN Fail("Invalid brightness value")
            ELSE LET brightness == Clamp(scalarAsDouble(value).n, 0, 1000)
                 IN  Built("bri", brightness > 0, brightness)
      [] channelExternalId = "ct" ->
            IF ~hasScalarValue(value) THEN Fail("Expected numeric color temperature")
            ELSE IF ~scalarAsDouble(value).ok THEN Fail("Invalid color temperature value")
            ELSE Built("ct", FALSE, Round(Clamp(scalarAsDouble(value).n, 1000, 10000)))
      [] channelExternalId = "color" ->
            IF ~extractRgb(value) THEN Fail("Invalid color payload")
            ELSE Built("color", FALSE, 0)
      [] OTHER -> Fail("Unsupported channel")

\* The channelStateUpdated echoes of an accepted write.
invokeEchoes(request) ==
    IF ~hasScalarValue(request.value) THEN <<>>
    ELSE IF request.channel = "on" /\ scalarAsBool(request.value).ok
         THEN <<ChannelStateSig(request.device, "on")>>
    ELSE IF request.channel = "ct" /\ scalarAsDouble(request.value).ok
         THEN <<ChannelStateSig(request.device, "ct")>>
    ELSE IF request.channel = "bri" /\ scalarAsDouble(request.value).ok
         THEN <<ChannelStateSig(request.device, "bri"), ChannelStateSig(request.device, "on")>>
    ELSE <<>>

\* The value of the channelStateUpdated that echoes an accepted write of
\* the bri or ct channel, in tenths: the rounded value for ct, the value
\* clamped to [0, 100] for bri; -1 when there is no such echo.
NoNumber == 0 - 1
echoedValue(request) ==
    IF ~hasScalarValue(request.value) \/ ~scalarAsDouble(request.value).ok THEN NoNumber
    ELSE IF request.channel = "ct" THEN 10 * Round(scalarAsDouble(request.value).n)
    ELSE IF request.channel = "bri" THEN Clamp(scalarAsDouble(request.value).n, 0, 1000)
    ELSE NoNumber

\* resp.finalValue of an accepted write: the value of the request.
finalValue(request) ==
    IF hasScalarValue(request.value) THEN request.value ELSE Scalar("none", FALSE, 0, "")

\* onChannelInvoke after bootstrap.  p is the outcome of the pollBridge call
\* made when the device has no light id; putOk is putJsonAsync's result.
\* The result is [status, error, polled, put, echoes, final, reported].
onChannelInvoke(request, p, putOk) ==
    LET known == request.device \in sc_lights
        lights == IF known THEN sc_lights ELSE p.lights
        built == buildLightCommandPayload(request.channel, request.value)
        Answer(status, error, put, echoes) ==
            [status |-> status, error |-> error, polled |-> ~known, put |-> put,
             echoes |-> echoes,
             final |-> IF status = "Success" THEN finalValue(request)
                       ELSE Scalar("none", FALSE, 0, ""),
             reported |-> IF status = "Success" THEN echoedValue(request) ELSE NoNumber]
    IN  IF request.device \notin lights
        THEN Answer("InvalidArgument", "No Hue light resource for device", NoPayload, <<>>)
        ELSE IF built.payload = NoPayload
        THEN Answer("InvalidArgument", built.error, NoPayload, <<>>)
        ELSE IF ~putOk
        THEN Answer("TemporarilyOffline", "Hue command could not be sent", NoPayload, <<>>)
        ELSE Answer("Success", "", built.payload, invokeEchoes(request))

\* QVariant::toInt of the written value: a double is rounded, a string
\* that is no number gives 0.
toInt(value) ==
    CASE value.type = "int" -> value.n \div 10
      [] value.type = "double" -> Round(value.n)
      [] value.type = "bool" -> IF value.b THEN 1 ELSE 0
      [] OTHER -> 0

\* HueAdapter::updateChannelState, the mirek of the body for a ct channel.
ctMiredOf(value) == toInt(value)

(***************************************************************************)
(* Initial state and actions.                                               *)
(***************************************************************************)
InitSidecar ==
    /\ sc_connected = FALSE
    /\ sc_devices = [d \in Devices |-> NoEntry]
    /\ sc_out = <<>>
    /\ sc_failed = {}
    /\ sc_lights = {}
    /\ sc_rooms = {}
    /\ hostRooms = {}
    /\ hostClass = [d \in Devices |-> NoClass]
    /\ sc_connNotes = NoNotes
    /\ polls = 0

\* start() has run and so has the startEventStream call it queued: the
\* stream is open, nothing has been received on it.
InitStream ==
    /\ m_eventStreamReply = TRUE
    /\ m_eventStreamRetryCount = 0
    /\ m_eventStreamRetryTimer = FALSE
    /\ m_supportsV2Events = FALSE
    /\ m_eventStreamErrorSuppressCount = 0
    /\ streamStarts = 0
    /\ streamEnds = 0
    /\ suppressResets = 0
    /\ fastReconnects = 0

\* No short release has been handled.
NoBurst == [n |-> 0, close |-> TRUE, since |-> 0, gap |-> 0]

InitButton ==
    /\ buttonEvents = 0
    /\ burst = NoBurst
    /\ reported = "none"

InitDial ==
    /\ dialEvents = 0
    /\ rotation = [direction |-> "none", steps |-> 0, armed |-> FALSE]

NoRenames ==
    [m_pendingRenameCommands |-> [d \in AllDevices |-> 0],
     m_pendingRenameVerifications |-> [d \in AllDevices |-> -1],
     m_activeRenameFetches |-> {},
     m_renameVerifyTimers |-> [d \in AllDevices |-> 0],
     out |-> <<>>]

InitRename ==
    /\ rename = NoRenames
    /\ cmdResults = [c \in CmdIds |-> 0]
    /\ lastCmd = 0
    /\ renames = 0

NoRequest == [device |-> "d1", channel |-> "effect", value |-> Scalar("none", FALSE, 0, "")]

InitWrite ==
    /\ invoked = [request |-> NoRequest, status |-> "none", error |-> "", polled |-> FALSE,
                  put |-> NoPayload, final |-> Scalar("none", FALSE, 0, ""),
                  reported |-> NoNumber]
    /\ written = [value |-> Scalar("none", FALSE, 0, ""), mirek |-> 0, sent |-> FALSE]
    /\ invokes = 0

\* The adapter after construction.
Fresh ==
    [m_connected |-> FALSE,
     m_stopping |-> FALSE,
     m_v2SnapshotPending |-> 0,
     m_v2BootstrapDone |-> FALSE,
     m_v2SnapshotFailedThisCycle |-> FALSE,
     m_v2SnapshotByType |-> [t \in AllTypes |-> NoArray],
     m_pendingV2ResourceTypes |-> {},
     m_v2ResourceRetryCount |-> [t \in AllTypes |-> 0],
     m_pendingV2DeviceFetch |-> {},
     m_v2DeviceFetchQueue |-> <<>>,
     m_failedV2DeviceFetch |-> {},
     m_deviceIdToExternalId |-> {},
     m_v2DeviceInfoCache |-> [d \in AllDevices |-> NoDevice],
     m_v2Devices |-> [d \in AllDevices |-> NoDevice],
     m_v2DeviceChannels |-> [d \in AllDevices |-> <<>>],
     m_channelBindings |-> {},
     m_knownDeviceExternalIds |-> {},
     m_v2ResyncTimer |-> FALSE,
     m_v2DeviceFetchTimer |-> FALSE,
     m_pendingV2ResyncReason |-> "",
     resyncStarts |-> 0,
     m_dialResetTimers |-> [d \in AllDevices |-> NoTimer],
     m_buttonMultiPress |-> [d \in AllDevices |-> NoTracker],
     sendTimers |-> [t \in AllTypes |-> 0],
     inFlight |-> [t \in AllTypes |-> 0],
     devInFlight |-> [d \in AllDevices |-> 0],
     putsSent |-> [d \in AllDevices |-> 0],
     out |-> <<>>,
     lastBuilt |-> [set |-> FALSE, arrays |-> [t \in AllTypes |-> {}]],
     removedWhileFetching |-> FALSE,
     blockedPass |-> [blocked |-> FALSE, out |-> <<>>],
     topoDirty |-> FALSE,
     gaveUp |-> {},
     retryLog |-> [t \in AllTypes |-> <<>>],
     atCycleStart |-> [channels |-> [d \in AllDevices |-> <<>>], known |-> {}],
     m_v2Scenes |-> [i \in SceneIds |-> NoScene],
     m_sceneSnapshotDirty |-> FALSE]

\* The variables hold the adapter s and the bridge reports a device with
\* the button resources buttons; no input has been counted yet.
StartGrouped(s, buttons, types, devices, rooms, zones) ==
    /\ followedTypes = types
    /\ bridgeDevices = devices
    /\ roomData = rooms
    /\ zoneData = zones
    /\ m_v2RoomMemberships = (IF s.m_v2BootstrapDone
                              THEN buildGroupsFromV2Snapshots(rooms, zones).m_v2RoomMemberships
                              ELSE NoMemberships)
    /\ adapterGroups = NotGrouped
    /\ groupDelta = NoDelta
    /\ sidecarGroups = NotGrouped
    /\ wire = <<>>
    /\ framesSent = 0
    /\ frameValid = [k \in Frames |-> TRUE]
    /\ handled = [k \in Frames |-> 0]
    /\ buttonResources = buttons
    /\ adapterButtons = NotBuilt
    /\ sidecarButtons = NotBuilt
    /\ putReplies = [d \in Devices |-> 0]
    /\ m_connected = s.m_connected
    /\ m_stopping = s.m_stopping
    /\ m_v2SnapshotPending = s.m_v2SnapshotPending
    /\ m_v2BootstrapDone = s.m_v2BootstrapDone
    /\ m_v2SnapshotFailedThisCycle = s.m_v2SnapshotFailedThisCycle
    /\ m_v2SnapshotByType = s.m_v2SnapshotByType
    /\ m_pendingV2ResourceTypes = s.m_pendingV2ResourceTypes
    /\ m_v2ResourceRetryCount = s.m_v2ResourceRetryCount
    /\ m_pendingV2DeviceFetch = s.m_pendingV2DeviceFetch
    /\ m_v2DeviceFetchQueue = s.m_v2DeviceFetchQueue
    /\ m_failedV2DeviceFetch = s.m_failedV2DeviceFetch
    /\ m_deviceIdToExternalId = s.m_deviceIdToExternalId
    /\ m_v2DeviceInfoCache = s.m_v2DeviceInfoCache
    /\ m_v2Devices = s.m_v2Devices
    /\ m_v2DeviceChannels = s.m_v2DeviceChannels
    /\ m_channelBindings = s.m_channelBindings
    /\ m_knownDeviceExternalIds = s.m_knownDeviceExternalIds
    /\ m_v2ResyncTimer = s.m_v2ResyncTimer
    /\ m_v2DeviceFetchTimer = s.m_v2DeviceFetchTimer
    /\ m_pendingV2ResyncReason = s.m_pendingV2ResyncReason
    /\ resyncStarts = s.resyncStarts
    /\ m_dialResetTimers = s.m_dialResetTimers
    /\ m_buttonMultiPress = s.m_buttonMultiPress
    /\ sendTimers = s.sendTimers
    /\ inFlight = s.inFlight
    /\ devInFlight = s.devInFlight
    /\ putsSent = s.putsSent
    /\ out = s.out
    /\ lastBuilt = s.lastBuilt
    /\ removedWhileFetching = s.removedWhileFetching
    /\ blockedPass = s.blockedPass
    /\ topoDirty = s.topoDirty
    /\ gaveUp = s.gaveUp
    /\ retryLog = s.retryLog
    /\ atCycleStart = s.atCycleStart
    /\ m_v2Scenes = s.m_v2Scenes
    /\ m_sceneSnapshotDirty = s.m_sceneSnapshotDirty
    /\ hostScenes = HostScenesAfter({}, s.out)
    /\ connNotes = [last |-> s.m_connected, alternating |-> TRUE]
    /\ announced = HostViewAfter([announced |-> {}, removed |-> {}], s.out).announced
    /\ removed = {}
    /\ cycles = 0
    /\ events = 0
    /\ snapFailures = 0
    /\ devFailures = 0
    /\ commands = 0
    /\ InitStream
    /\ InitButton
    /\ InitDial
    /\ InitRename
    /\ InitWrite
    /\ InitSidecar

\* The same on a bridge without rooms and zones.
StartWith(s, buttons, types, devices) == StartGrouped(s, buttons, types, devices, <<>>, <<>>)

StartFrom(s) == StartWith(s, <<>>, ServiceTypes, Devices)

Init == StartFrom(Fresh)

\* The bridge with both devices, the light of d1 and the button of d2.
FullArrays ==
    [t \in AllTypes |->
        IF t = "device" THEN {[id |-> d, meta |-> <<"m1">>] : d \in Devices}
        ELSE IF t = "light" THEN {LightOwner}
        ELSE IF t = "button" THEN {ButtonOwner} ELSE {}]

\* The adapter after one complete cycle against FullArrays: requestFullSync,
\* the two delayed sends, then the three replies in request order.
Synced ==
    LET a == requestFullSync(Fresh)
        b == sendRequest([a EXCEPT !.sendTimers["light"] = @ - 1], "light")
        c == sendRequest([b EXCEPT !.sendTimers["button"] = @ - 1], "button")
        Reply(s, t) ==
            snapshotReplySucceeded([s EXCEPT !.inFlight[t] = @ - 1, !.out = <<>>],
                                   t, FullArrays[t])
    IN  Reply(Reply(Reply(c, "device"), "light"), "button")

\* The bridge with device d1 and its light only.
LightOnlyArrays ==
    [t \in AllTypes |->
        IF t = "device" THEN {[id |-> LightOwner, meta |-> <<"m1">>]}
        ELSE IF t = "light" THEN {LightOwner} ELSE {}]

\* The adapter after one complete cycle against arrays: requestFullSync,
\* the delayed sends, then the replies in request order.
SyncedOn(arrays) ==
    LET Send(s, t) ==
            IF s.sendTimers[t] > 0
            THEN sendRequest([s EXCEPT !.sendTimers[t] = @ - 1], t) ELSE s
        Reply(s, t) ==
            snapshotReplySucceeded([s EXCEPT !.inFlight[t] = @ - 1, !.out = <<>>],
                                   t, arrays[t])
    IN  ForEach(Reply, ForEach(Send, requestFullSync(Fresh), Resources), Resources)

\* Behaviours that follow the discovery type and begin after a first
\* complete cycle that found d1 and its light.
InitDiscovery == StartWith(SyncedOn(LightOnlyArrays), <<>>, DiscoveryTypes, Devices)

\* Behaviours that follow the device type alone on a bridge of six devices,
\* from the constructed adapter.
InitFetch == StartWith(Fresh, <<>>, DeviceOnly, Devices \cup ExtraDevices)

\* Behaviours that begin after that first complete cycle.
InitSynced == StartFrom(Synced)

\* The host calls requestFullSync, at start-up or at any later time, a cycle
\* in progress included; limit bounds the number of cycles of a behaviour.
StartCycle(limit) ==
    /\ cycles < limit
    /\ Commit(requestFullSync(St))
    /\ cycles' = cycles + 1
    /\ UNCHANGED <<events, snapFailures, devFailures, commands, otherVars>>

RequestFullSync == StartCycle(MaxCycles)

\* The same call in behaviours of a single cycle.
RequestFullSyncOnce == StartCycle(MaxSingleCycles)

\* m_v2ResyncTimer times out: performScheduledV2SnapshotRefresh.
ResyncTimerFire ==
    /\ m_v2ResyncTimer
    /\ cycles < MaxSingleCycles
    /\ Commit(performScheduledV2SnapshotRefresh(
                  [St EXCEPT !.m_v2ResyncTimer = FALSE, !.resyncStarts = 0]))
    /\ cycles' = cycles + 1
    /\ UNCHANGED <<events, snapFailures, devFailures, commands, otherVars>>

\* A delayed sendRequest (stagger or retry back-off) runs.
SendTimerFire ==
    \E t \in ResourceTypes :
        /\ sendTimers[t] > 0
        /\ Commit(sendRequest([St EXCEPT !.sendTimers[t] = @ - 1], t))
        /\ UNCHANGED <<cycles, events, snapFailures, devFailures, commands, otherVars>>

SnapshotReplyOk ==
    \E t \in ResourceTypes : \E arr \in ArraysOf(t) :
        /\ inFlight[t] > 0
        /\ Commit(snapshotReplySucceeded([St EXCEPT !.inFlight[t] = @ - 1], t, arr))
        /\ UNCHANGED <<cycles, events, snapFailures, devFailures, commands, otherVars>>

\* A snapshot request of one of the given types ends in an error.
FailSnapshot(types) ==
    \E t \in types :
        /\ inFlight[t] > 0
        /\ snapFailures < MaxSnapshotFailures
        /\ Commit(snapshotReplyFailed([St EXCEPT !.inFlight[t] = @ - 1], t))
        /\ snapFailures' = snapFailures + 1
        /\ UNCHANGED <<cycles, events, devFailures, commands, otherVars>>

SnapshotReplyFail == FailSnapshot(ResourceTypes)

\* Only a type outside CoreTypes fails.
SecondaryReplyFail == FailSnapshot(ResourceTypes \ CoreTypes)

\* The rename members after a handler, and the cmdResult signals counted.
RenameCommit(r) ==
    /\ rename' = r
    /\ cmdResults' = [c \in CmdIds |->
                         cmdResults[c] + Cardinality({i \in 1..Len(r.out) : r.out[i].id = c})]

RenameSt == [rename EXCEPT !.out = <<>>]

\* A device reply without error whose payload is one of metas.
DeviceReply(metas) ==
    \E d \in AllDevices : \E m \in metas :
        /\ devInFlight[d] > 0
        /\ Commit(deviceReplySucceeded([St EXCEPT !.devInFlight[d] = @ - 1], d, <<m>>))
        /\ RenameCommit(verifyRenameOnReply(RenameSt, m_stopping, d, <<m>>))
        /\ UNCHANGED <<cycles, events, snapFailures, devFailures, commands, sidecarVars,
                       streamVars, buttonVars, dialVars, writeVars, restVars, lastCmd, renames>>

DeviceReplyOk == DeviceReply(Metas)

\* The same reply where the payload may lack metadata.name.
DeviceReplyAnyName == DeviceReply(Metas \cup {Unnamed})

\* The host renames one of the devices ids: a name of names, a cmd id of its
\* own if withCmd, sendV2ResourceUpdate's result one of sents.
RenameDevice(ids, names, withCmd, sents) ==
    \E d \in ids : \E trimmed \in names :
    \E cmdId \in {0} \cup {c \in {lastCmd + 1} : withCmd} : \E sent \in sents :
        /\ renames < MaxRenames
        /\ renames' = renames + 1
        /\ lastCmd' = IF cmdId = 0 THEN lastCmd ELSE cmdId
        /\ RenameCommit(updateDeviceName(RenameSt, m_stopping, d, trimmed, cmdId, sent))
        /\ UNCHANGED <<adapterVars, sidecarVars, streamVars, buttonVars, dialVars, writeVars, restVars>>

\* Any name, a cmd id of its own or none, the PUT accepted by the network
\* layer or not.
UpdateDeviceName == RenameDevice(Devices, {"", "name"}, TRUE, BOOLEAN)

\* The host renames the extra device without a cmd id and the PUT goes out.
RenameExtraDevice == RenameDevice({RenamedExtra}, {"name"}, FALSE, {TRUE})

RenameTimerFire ==
    \E d \in AllDevices :
        /\ rename.m_renameVerifyTimers[d] > 0
        /\ LET t == renameVerifyTimeout(RenameSt, m_stopping, d)
           IN  /\ RenameCommit(t.r)
               /\ Commit(IF t.fetch THEN fetchV2DeviceResource(St, d) ELSE St)
        /\ UNCHANGED <<cycles, events, snapFailures, devFailures, commands, sidecarVars,
                       streamVars, buttonVars, dialVars, writeVars, restVars, lastCmd, renames>>

DeviceReplyFail ==
    \E d \in AllDevices :
        /\ devInFlight[d] > 0
        /\ devFailures < MaxDeviceFetchFailures
        /\ Commit(deviceReplyFailed([St EXCEPT !.devInFlight[d] = @ - 1], d))
        /\ devFailures' = devFailures + 1
        /\ UNCHANGED <<cycles, events, snapFailures, commands, otherVars>>

\* m_v2DeviceFetchTimer times out: startNextQueuedV2DeviceFetch.  The timer
\* is armed only after a start that leaves both a queued id and a free slot.
DeviceFetchTimerFire ==
    /\ m_v2DeviceFetchTimer
    /\ Commit(startNextQueuedV2DeviceFetch([St EXCEPT !.m_v2DeviceFetchTimer = FALSE]))
    /\ UNCHANGED <<cycles, events, snapFailures, devFailures, commands, otherVars>>

\* onEventStreamReadyRead, the part before the event objects are handled.
onEventStreamReadyRead(s) == setConnected(s, TRUE)

\* onEventStreamReadyRead on a chunk that carries one event object: the
\* stream bookkeeping around the call of handleEventStreamEventObject.
StreamChunk ==
    /\ m_eventStreamReply
    /\ m_eventStreamRetryTimer' = FALSE
    /\ m_supportsV2Events' = TRUE
    /\ m_eventStreamRetryCount' = IF m_supportsV2Events THEN m_eventStreamRetryCount ELSE 0
    /\ fastReconnects' = 0
    /\ UNCHANGED <<cycles, snapFailures, devFailures, commands, sidecarVars,
                   m_eventStreamReply, m_eventStreamErrorSuppressCount, streamStarts,
                   streamEnds, suppressResets>>

EventDone ==
    /\ events < MaxEvents
    /\ events' = events + 1
    /\ StreamChunk
    /\ UNCHANGED featureVars

DeleteEvent ==
    \E d \in Devices :
        /\ Commit(scheduleV2SnapshotRefresh(
                      handleV2DeleteEvent(onEventStreamReadyRead(St), d), DeleteReason))
        /\ EventDone

\* An update event for a device resource, or for a room or zone that
\* carries children or services: a topology change, no per-type handler
\* state in this model.
TopologyDelta ==
    /\ Commit(scheduleV2SnapshotRefresh(
                  [onEventStreamReadyRead(St) EXCEPT !.topoDirty = TRUE], TopologyReason))
    /\ EventDone

\* handleEventStreamEventObject on an update event for a room or a zone:
\* the handler, then the resync when the object contains children or
\* services.
groupEvent(s, g, type, resObj) ==
    LET h == IF type = "room" THEN handleV2RoomResource([g EXCEPT !.out = s.out], resObj)
             ELSE handleV2ZoneResource([g EXCEPT !.out = s.out], resObj)
        a == [s EXCEPT !.out = h.out]
    IN  [g |-> h,
         s |-> IF resObj.keys # {}
               THEN scheduleV2SnapshotRefresh([a EXCEPT !.topoDirty = TRUE], GroupReason(type))
               ELSE a]

\* observed tells whether groupDelta records the event.
GroupDelta(type, objects, observed) ==
    \E resObj \in objects :
        LET r == groupEvent(onEventStreamReadyRead(St),
                            [m_v2RoomMemberships |-> m_v2RoomMemberships, out |-> <<>>],
                            type, resObj)
        IN  /\ events < MaxEvents
            /\ events' = events + 1
            /\ Commit(r.s)
            /\ m_v2RoomMemberships' = r.g.m_v2RoomMemberships
            /\ groupDelta' = IF observed
                             THEN [n |-> events + 1, type |-> type, keys |-> resObj.keys]
                             ELSE groupDelta
            /\ StreamChunk
            /\ UNCHANGED <<buttonVars, dialVars, renameVars, writeVars, namingVars,
                           putVars, modeVars, wireVars, roomData, zoneData, adapterGroups,
                           sidecarGroups>>

\* An update event for a room without children and services.
RoomMetadataDelta == GroupDelta("room", {o \in RoomDeltas : o.keys = {}}, FALSE)

\* Any update event for a room, for a zone.
RoomDelta == GroupDelta("room", RoomDeltas, TRUE)
ZoneDelta == GroupDelta("zone", ZoneDeltas, TRUE)

\* handleEventStreamEventObject on a scene object: the scene is handled and
\* the scene list announced.
sceneEvent(s, resObj) ==
    LET a == [s EXCEPT !.m_v2Scenes = handleV2SceneResource(@, resObj)]
    IN  Emit(a, ScenesSig(sceneValues(a.m_v2Scenes)))

\* An update event for a scene.
SceneDelta ==
    \E resObj \in SceneObjects :
        /\ Commit(sceneEvent(onEventStreamReadyRead(St), resObj))
        /\ events < MaxEvents
        /\ events' = events + 1
        /\ StreamChunk
        /\ UNCHANGED <<buttonVars, dialVars, renameVars, writeVars, namingVars, putVars,
                       modeVars, groupVars, wireVars>>

LightDelta ==
    /\ Commit(handleV2LightResource(onEventStreamReadyRead(St), LightOwner))
    /\ EventDone

RotaryDelta ==
    /\ Commit(handleV2RelativeRotaryResource(onEventStreamReadyRead(St), RotaryOwner,
                                             "clock_wise", 1))
    /\ EventDone

ButtonDelta ==
    \E lastEvent \in {"initial_press", "short_release"} :
    \E gap \in {0, kButtonMultiPressResetGapMs} :
        /\ Commit(handleV2ButtonResource(onEventStreamReadyRead(St), ButtonOwner, lastEvent, gap))
        /\ EventDone

DialResetFire ==
    \E d \in Devices :
        /\ m_dialResetTimers[d].pending > 0
        /\ Commit(dialResetTimeout(St, d))
        /\ UNCHANGED <<cycles, events, snapFailures, devFailures, commands, otherVars>>

MultiPressFire ==
    \E d \in Devices :
        /\ m_buttonMultiPress[d].timer
        /\ Commit(finalizePendingShortPress(St, d))
        /\ UNCHANGED <<cycles, events, snapFailures, devFailures, commands, otherVars>>

\* Times between two consecutive button events, in milliseconds.
Gaps == {0, 250, kButtonMultiPressResetGapMs}
\* Stands for every time above the reset gap and below the window.
LongGap == kButtonMultiPressResetGapMs + 250
ButtonEvents ==
    {"initial_press", "long_press", "repeat", "short_release", "long_release", "double_short_release"}

\* A button event dt milliseconds after the previous one.  burst.since is
\* the time since the last short release, so gap is the event's timestamp
\* minus that release's; burst records the releases since the window last
\* expired and whether each came at most the reset gap after the one before,
\* and burst.gap is the gap of the last event handled.
ButtonReport ==
    \E lastEvent \in ButtonEvents : \E dt \in Gaps :
        LET gap == IF burst.n = 0 THEN 0
                   ELSE IF burst.since + dt > LongGap THEN LongGap ELSE burst.since + dt
        IN  /\ buttonEvents < MaxButtonEvents
            /\ buttonEvents' = buttonEvents + 1
            /\ reported' = lastEvent
            /\ Commit(handleV2ButtonResource(onEventStreamReadyRead(St), ButtonOwner,
                                             lastEvent, gap))
            /\ burst' = IF lastEvent = "short_release"
                        THEN [n |-> burst.n + 1,
                              close |-> burst.close /\ gap <= kButtonMultiPressResetGapMs,
                              since |-> 0,
                              gap |-> gap]
                        ELSE [burst EXCEPT !.since = gap, !.gap = gap]
            /\ StreamChunk
            /\ UNCHANGED <<events, dialVars, renameVars, writeVars, restVars>>

\* The window timer of the button's tracker fires, kButtonMultiPressWindowMs
\* after the last short release.
WindowExpiry ==
    /\ m_buttonMultiPress[ButtonOwner].timer
    /\ Commit(finalizePendingShortPress(St, ButtonOwner))
    /\ burst' = NoBurst
    /\ UNCHANGED <<cycles, events, snapFailures, devFailures, commands, sidecarVars,
                   streamVars, buttonEvents, reported, dialVars, renameVars, writeVars, restVars>>

Directions == {"clock_wise", "counter_clock_wise", "sideways"}
StepCounts == {0, 1, 2}

\* A relative_rotary event with any rotation.
RotaryReport ==
    \E direction \in Directions : \E steps \in StepCounts :
        /\ dialEvents < MaxDialEvents
        /\ dialEvents' = dialEvents + 1
        /\ rotation' = [direction |-> direction, steps |-> steps,
                        armed |-> m_dialResetTimers[RotaryOwner].pending > 0]
        /\ Commit(handleV2RelativeRotaryResource(onEventStreamReadyRead(St), RotaryOwner,
                                                 direction, steps))
        /\ StreamChunk
        /\ UNCHANGED <<events, buttonVars, renameVars, writeVars, restVars>>

UpdateChannelState ==
    \E d \in Devices :
        /\ commands < MaxCommands
        /\ Commit(updateChannelState(St, d, "on"))
        /\ commands' = commands + 1
        /\ UNCHANGED <<cycles, events, snapFailures, devFailures, otherVars>>

\* The bridge answers a PUT of a channel write.
PutReplyOk ==
    \E d \in Devices :
        /\ putReplies[d] < putsSent[d]
        /\ putReplies' = [putReplies EXCEPT ![d] = @ + 1]
        /\ Commit(putReplySucceeded(St))
        /\ UNCHANGED <<cycles, events, snapFailures, devFailures, commands, sidecarVars,
                       streamVars, buttonVars, dialVars, renameVars, writeVars,
                       namingVars, modeVars, groupVars, wireVars>>

\* startEventStream with the host known and the application key present.
startEventStream ==
    m_eventStreamReply' = (IF m_stopping THEN m_eventStreamReply ELSE TRUE)

\* A QTimer::singleShot(2000, startEventStream) of onEventStreamFinished fires.
StreamStartFire ==
    /\ streamStarts > 0
    /\ streamStarts' = streamStarts - 1
    /\ startEventStream
    /\ Commit(St)
    /\ UNCHANGED <<cycles, events, snapFailures, devFailures, commands, sidecarVars, featureVars,
                   m_eventStreamRetryCount, m_eventStreamRetryTimer, m_supportsV2Events,
                   m_eventStreamErrorSuppressCount, streamEnds, suppressResets,
                   fastReconnects>>

\* m_eventStreamRetryTimer times out.
StreamRetryTimerFire ==
    /\ m_eventStreamRetryTimer
    /\ m_eventStreamRetryTimer' = FALSE
    /\ startEventStream
    /\ Commit(St)
    /\ UNCHANGED <<cycles, events, snapFailures, devFailures, commands, sidecarVars, featureVars,
                   m_eventStreamRetryCount, m_supportsV2Events,
                   m_eventStreamErrorSuppressCount, streamStarts, streamEnds,
                   suppressResets, fastReconnects>>

\* The stream reply finishes: QNetworkAccessManager::finished runs
\* onNetworkReplyFinished on it, then its own signal runs
\* onEventStreamFinished.
StreamFinished ==
    \E hasError \in BOOLEAN :
        LET suppress == IF hasError /\ m_eventStreamErrorSuppressCount > 0
                        THEN m_eventStreamErrorSuppressCount - 1
                        ELSE m_eventStreamErrorSuppressCount
            retry == ~m_stopping /\ hasError
            fast == retry /\ (suppress > 0 \/ m_eventStreamRetryCount < kFastReconnects)
        IN  /\ m_eventStreamReply
            /\ streamEnds < MaxStreamEnds
            /\ streamEnds' = streamEnds + 1
            /\ Commit(IF ~hasError THEN setConnected(St, TRUE)
                      ELSE IF m_stopping THEN St ELSE setConnected(St, FALSE))
            /\ m_eventStreamErrorSuppressCount' = suppress
            /\ m_supportsV2Events' = FALSE
            /\ m_eventStreamRetryCount' =
                   IF retry /\ suppress = 0 /\ m_eventStreamRetryCount < kFastReconnects
                   THEN m_eventStreamRetryCount + 1 ELSE m_eventStreamRetryCount
            /\ streamStarts' = IF fast THEN streamStarts + 1 ELSE streamStarts
            /\ fastReconnects' = IF fast THEN fastReconnects + 1 ELSE fastReconnects
            /\ m_eventStreamRetryTimer' = (m_eventStreamRetryTimer \/ (retry /\ ~fast))
            /\ m_eventStreamReply' = FALSE
            /\ UNCHANGED <<cycles, events, snapFailures, devFailures, commands, sidecarVars,
                           featureVars, suppressResets>>

\* The orders in which the elements of S can be listed.
Orders(S) == {q \in [1..Cardinality(S) -> S] : Range(q) = S}

\* The host calls stop().
Stop ==
    \E replies \in Orders(outstandingReplies(St)) :
        /\ ~m_stopping
        /\ Commit(stop(St, replies))
        /\ RenameCommit(stopRenames(RenameSt))
        /\ m_eventStreamReply' = FALSE
        /\ UNCHANGED <<cycles, events, snapFailures, devFailures, commands, sidecarVars,
                       buttonVars, dialVars, writeVars, restVars, lastCmd, renames,
                       m_eventStreamRetryCount, m_eventStreamRetryTimer, m_supportsV2Events,
                       m_eventStreamErrorSuppressCount, streamStarts, streamEnds,
                       suppressResets, fastReconnects>>

\* zigbeeDeviceDiscoveryResourceId is not empty: the device payloads of the
\* model list no service, so the id is that of a resource of the snapshot.
discoveryResourceReady(s) ==
    /\ s.m_v2SnapshotByType["zigbee_device_discovery"].present
    /\ s.m_v2SnapshotByType["zigbee_device_discovery"].data # {}

ActionResultSig(status) == [sig |-> "actionResult", status |-> status]

\* The suppress count invokeAdapterAction leaves.
raisedSuppressCount(count) == IF count > kSuppressedErrors THEN count ELSE kSuppressedErrors

\* The host invokes the adapter action startDeviceDiscovery, with the
\* application key present: the suppress count is raised, its reset is
\* scheduled and the PUT is sent.
StartDeviceDiscovery ==
    /\ invokes < MaxInvokes
    /\ invokes' = invokes + 1
    /\ IF discoveryResourceReady(St)
       THEN /\ m_eventStreamErrorSuppressCount'
                  = raisedSuppressCount(m_eventStreamErrorSuppressCount)
            /\ suppressResets' = suppressResets + 1
            /\ Commit(St)
       ELSE /\ Commit(Emit(St, ActionResultSig("Failure")))
            /\ UNCHANGED <<m_eventStreamErrorSuppressCount, suppressResets>>
    /\ UNCHANGED <<cycles, events, snapFailures, devFailures, commands, sidecarVars,
                   buttonVars, dialVars, renameVars, restVars, invoked, written,
                   m_eventStreamReply, m_eventStreamRetryCount, m_eventStreamRetryTimer,
                   m_supportsV2Events, streamStarts, streamEnds, fastReconnects>>

\* The single shot invokeAdapterAction set up fires, 5 s after the action.
SuppressResetFire ==
    /\ suppressResets > 0
    /\ suppressResets' = suppressResets - 1
    /\ m_eventStreamErrorSuppressCount' = 0
    /\ Commit(St)
    /\ UNCHANGED <<cycles, events, snapFailures, devFailures, commands, sidecarVars,
                   featureVars, m_eventStreamReply, m_eventStreamRetryCount,
                   m_eventStreamRetryTimer, m_supportsV2Events, streamStarts, streamEnds,
                   fastReconnects>>

\* The rooms the host holds after the messages sigs, in order.
RECURSIVE HostRoomsAfter(_, _)
HostRoomsAfter(held, sigs) ==
    IF sigs = <<>> THEN held
    ELSE HostRoomsAfter(
             IF Head(sigs).sig = "roomUpdated" THEN held \cup {Head(sigs).room}
             ELSE IF Head(sigs).sig = "roomRemoved" THEN held \ {Head(sigs).room}
             ELSE held,
             Tail(sigs))

\* The classes the host holds after the messages sigs, in order.
RECURSIVE HostClassAfter(_, _)
HostClassAfter(held, sigs) ==
    IF sigs = <<>> THEN held
    ELSE HostClassAfter(
             IF Head(sigs).sig = "deviceUpdated"
             THEN [held EXCEPT ![Head(sigs).dev] = Head(sigs).cls]
             ELSE IF Head(sigs).sig = "deviceRemoved"
             THEN [held EXCEPT ![Head(sigs).dev] = NoClass]
             ELSE held,
             Tail(sigs))

\* The sidecar after a poll or a channel write with outcome r.
SidecarCommit(r) ==
    /\ sc_connected' = r.connected
    /\ sc_devices' = r.devices
    /\ sc_out' = r.out
    /\ sc_failed' = r.failed
    /\ sc_lights' = r.lights
    /\ sc_rooms' = r.rooms
    /\ hostRooms' = HostRoomsAfter(hostRooms, r.out)
    /\ hostClass' = HostClassAfter(hostClass, r.out)
    /\ sc_connNotes' = NotesAfter(sc_connNotes, r.out)

\* HueSidecar::tick with the poll due, the device fetch's outcome among
\* deviceResults, the room array among roomArrays and the scene array among
\* sceneArrays.
Poll(deviceResults, roomArrays, sceneArrays) ==
    \E sceneData \in sceneArrays :
    \E device \in deviceResults : \E light \in FetchResults("light") :
    \E button \in FetchResults("button") :
    \E room \in {FetchFailed} \cup {[ok |-> TRUE, data |-> arr] : arr \in roomArrays} :
    \E sent \in 0..MaxSends :
        /\ polls < MaxPolls
        /\ SidecarCommit(tickPoll(device, light, button, room, sceneData, sent))
        /\ polls' = polls + 1
        /\ UNCHANGED <<adapterVars, streamVars, featureVars>>

\* HueSidecar::onDisconnected: the connection to the host is lost.
Disconnected ==
    /\ SidecarCommit([connected |-> FALSE, devices |-> sc_devices, failed |-> sc_failed,
                      lights |-> sc_lights, rooms |-> sc_rooms,
                      out |-> setConnectionState(sc_connected, FALSE)])
    /\ UNCHANGED <<adapterVars, streamVars, featureVars, polls>>

\* Polls of a bridge without rooms.
Tick == Poll(FetchResults("device"), {{}}, {{}})

\* Polls of a bridge with both devices and any rooms.
TickRooms == Poll({[ok |-> TRUE, data |-> FullArrays["device"]]}, RoomArrays, {{}})

\* Polls of a bridge with both devices, no rooms and any scene.
TickScenes == Poll({[ok |-> TRUE, data |-> FullArrays["device"]]}, {{}}, SceneArrays)

NextSidecar == Tick

\* The host writes a channel through the sidecar.  The refresh poll, when
\* one is made, finds both devices or fails on the device fetch, finds the
\* button and room fetches succeeding and every message accepted.
ChannelInvoke ==
    \E request \in Requests : \E putOk \in BOOLEAN :
    \E device \in {FetchFailed, [ok |-> TRUE, data |-> FullArrays["device"]]} :
    \E light \in FetchResults("light") :
        LET p == pollBridge(device, light, [ok |-> TRUE, data |-> {ButtonOwner}],
                            [ok |-> TRUE, data |-> {}], {}, MaxSends)
            r == onChannelInvoke(request, p, putOk)
        IN  /\ invokes < MaxInvokes
            /\ invokes' = invokes + 1
            /\ invoked' = [request |-> request, status |-> r.status, error |-> r.error,
                           polled |-> r.polled, put |-> r.put, final |-> r.final,
                           reported |-> r.reported]
            /\ SidecarCommit(
                   IF r.polled THEN [p EXCEPT !.out = @ \o r.echoes]
                   ELSE [connected |-> sc_connected, devices |-> sc_devices,
                         failed |-> sc_failed, lights |-> sc_lights, rooms |-> sc_rooms,
                         out |-> r.echoes])
            /\ UNCHANGED <<adapterVars, streamVars, buttonVars, dialVars, renameVars,
                           restVars, written, polls>>

\* The host writes the ct channel of a device through the adapter; the
\* channel is bound to a light or not.
UpdateCtState ==
    \E value \in InvokeValues : \E bound \in BOOLEAN :
        /\ invokes < MaxInvokes
        /\ invokes' = invokes + 1
        /\ written' = IF bound /\ ~m_stopping
                      THEN [value |-> value, mirek |-> ctMiredOf(value), sent |-> TRUE]
                      ELSE [value |-> value, mirek |-> 0, sent |-> FALSE]
        /\ UNCHANGED <<adapterVars, sidecarVars, streamVars, buttonVars, dialVars,
                       renameVars, restVars, invoked>>

\* The sidecar's polls of a bridge that keeps its devices while its rooms
\* and services come and go.
NextRooms == TickRooms

SpecRooms == Init /\ [][NextRooms]_vars

\* The adapter's rebuild and the sidecar's buildSnapshot reach the button
\* resources of the device.
BuildAdapterButtons ==
    /\ adapterButtons' = adapterButtonChannels(buttonResources)
    /\ UNCHANGED <<adapterVars, sidecarVars, streamVars, buttonVars, dialVars, renameVars,
                   writeVars, putVars, modeVars, groupVars, wireVars, buttonResources,
                   sidecarButtons>>

BuildSidecarButtons ==
    /\ sidecarButtons' = sidecarButtonChannels(buttonResources)
    /\ UNCHANGED <<adapterVars, sidecarVars, streamVars, buttonVars, dialVars, renameVars,
                   writeVars, putVars, modeVars, groupVars, wireVars, buttonResources,
                   adapterButtons>>

\* The bridge writes one frame to the open stream; its event object is an
\* update of the light of d1.
BridgeWritesFrame ==
    \E valid \in BOOLEAN :
        /\ m_eventStreamReply
        /\ framesSent < MaxFrames
        /\ framesSent' = framesSent + 1
        /\ frameValid' = [frameValid EXCEPT ![framesSent + 1] = valid]
        /\ wire' = wire \o FrameTokens(framesSent + 1, valid)
        /\ UNCHANGED <<adapterVars, sidecarVars, streamVars, buttonVars, dialVars, renameVars,
                       writeVars, namingVars, putVars, modeVars, groupVars, handled>>

\* onEventStreamReadyRead on a chunk: the first n tokens on the wire.
StreamRead ==
    \E n \in 1..Len(wire) :
        LET chunk == SubSeq(wire, 1, n)
            frames == framesHandledIn(splitLines(chunk, <<>>))
            Handle(s, k) == handleV2LightResource(s, LightOwner)
        IN  /\ wire' = SubSeq(wire, n + 1, Len(wire))
            /\ handled' = [k \in Frames |->
                              handled[k] + Cardinality({i \in DOMAIN frames : frames[i] = k})]
            /\ Commit(ForEach(Handle, onEventStreamReadyRead(St), frames))
            /\ StreamChunk
            /\ UNCHANGED <<events, buttonVars, dialVars, renameVars, writeVars,
                           namingVars, putVars, modeVars, groupVars, framesSent, frameValid>>

NextFrames == BridgeWritesFrame \/ StreamRead

SpecFrames == InitSynced /\ [][NextFrames]_vars

\* The adapter's rebuild and the sidecar's buildSnapshot reach the rooms
\* and zones of the bridge.
BuildAdapterGroups ==
    LET g == buildGroupsFromV2Snapshots(roomData, zoneData)
    IN  /\ adapterGroups' = g.out
        /\ m_v2RoomMemberships' = g.m_v2RoomMemberships
        /\ UNCHANGED <<adapterVars, sidecarVars, streamVars, buttonVars, dialVars, renameVars,
                       writeVars, namingVars, putVars, modeVars, wireVars, roomData,
                       zoneData, sidecarGroups, groupDelta>>

BuildSidecarGroups ==
    /\ sidecarGroups' = sidecarGroupsOf(roomData, zoneData)
    /\ UNCHANGED <<adapterVars, sidecarVars, streamVars, buttonVars, dialVars, renameVars,
                   writeVars, namingVars, putVars, modeVars, wireVars, roomData,
                   zoneData, m_v2RoomMemberships, adapterGroups, groupDelta>>

InitZones ==
    \E rooms \in GroupArrays(RoomObjects) : \E zones \in GroupArrays(ZoneObjects) :
        StartGrouped(Fresh, <<>>, ServiceTypes, Devices, rooms, zones)

NextZones == BuildAdapterGroups \/ BuildSidecarGroups

\* The bridge with room r1 of d1 and d2 and zone z1 of room r1.
HomeRoom ==
    [id |-> "r1", keys |-> ArrayKeys, services |-> <<>>,
     children |-> <<Ref("device", "d1"), Ref("device", "d2")>>]
HomeZone ==
    [id |-> "z1", keys |-> ArrayKeys, services |-> <<>>, children |-> <<Ref("room", "r1")>>]

InitGrouped == StartGrouped(Synced, <<>>, ServiceTypes, Devices, <<HomeRoom>>, <<HomeZone>>)

\* Update events for the room and the zone of a synchronised adapter.
NextGroupEvents == RoomDelta \/ ZoneDelta

SpecGroupEvents == InitGrouped /\ [][NextGroupEvents]_vars

SpecZones == InitZones /\ [][NextZones]_vars

InitNaming == \E buttons \in ButtonLists : StartWith(Fresh, buttons, ServiceTypes, Devices)

NextNaming == BuildAdapterButtons \/ BuildSidecarButtons

SpecNaming == InitNaming /\ [][NextNaming]_vars

\* One cycle of a synchronised adapter, with channel writes and the replies
\* to their PUTs.
NextPending ==
    \/ RequestFullSyncOnce
    \/ SendTimerFire
    \/ SnapshotReplyOk
    \/ DeviceReplyOk
    \/ UpdateChannelState
    \/ PutReplyOk

SpecPending == InitSynced /\ [][NextPending]_vars

\* Cycles of an adapter that knows d1, with the discovery type followed.
NextDiscovery ==
    \/ RequestFullSync
    \/ SendTimerFire
    \/ SnapshotReplyOk
    \/ DeviceReplyOk
    \/ DeviceReplyFail

SpecDiscovery == InitDiscovery /\ [][NextDiscovery]_vars

\* An update event for a button resource of a device of the bridge that
\* carries no button report: handleV2ButtonResource resolves the owner.  The
\* devices are alike, so the behaviours meet new owners in DeviceOrder.
OwnerEvent ==
    \E i \in 1..Len(DeviceOrder) :
        /\ \A j \in 1..(i - 1) : DeviceOrder[j] \in m_deviceIdToExternalId
        /\ Commit(seedButton(onEventStreamReadyRead(St), DeviceOrder[i]))
        /\ UNCHANGED <<cycles, events, snapFailures, devFailures, commands, otherVars>>

\* requestFullSync called while no request, reply or delayed send is
\* outstanding.
RequestFullSyncWhenIdle ==
    /\ \A t \in ResourceTypes : inFlight[t] = 0 /\ sendTimers[t] = 0
    /\ \A d \in AllDevices : devInFlight[d] = 0
    /\ Commit(requestFullSync(St))
    /\ UNCHANGED <<cycles, events, snapFailures, devFailures, commands, otherVars>>

\* The lazy metadata fetches of six devices: asked for by events, answered
\* or failed, forgotten by the next cycle.
NextFetch ==
    \/ OwnerEvent
    \/ DeviceReplyOk
    \/ DeviceReplyFail
    \/ RequestFullSyncWhenIdle
    \/ SnapshotReplyOk

SpecFetch == InitFetch /\ [][NextFetch]_vars

\* The same fetches under the cap: asked for by events and by rename
\* verifications, answered or failed.
NextFetchCap ==
    \/ OwnerEvent
    \/ RenameExtraDevice
    \/ RenameTimerFire
    \/ DeviceReplyOk
    \/ DeviceReplyFail

SpecFetchCap == InitFetch /\ [][NextFetchCap]_vars

\* Cycles of an adapter that follows the scene type, each started when the
\* one before has ended, on a bridge whose scene array differs from cycle to
\* cycle.
InitSceneSync == StartWith(SyncedOn(FullArrays), <<>>, SceneTypes, Devices)

NextSceneSync ==
    \/ RequestFullSyncWhenIdle
    \/ SendTimerFire
    \/ SnapshotReplyOk
    \/ DeviceReplyOk

SpecSceneSync == InitSceneSync /\ [][NextSceneSync]_vars

\* Delete and topology events of a synchronised adapter, the resync timer,
\* the cycle it starts, and stop().
NextCoalesce ==
    \/ DeleteEvent
    \/ TopologyDelta
    \/ ResyncTimerFire
    \/ SendTimerFire
    \/ SnapshotReplyOk
    \/ DeviceReplyOk
    \/ Stop

SpecCoalesce == InitSynced /\ [][NextCoalesce]_vars

\* Scene arrays polled by the sidecar and scene events handled by the adapter.
NextScenes == TickScenes \/ SceneDelta

SpecScenes == InitSynced /\ [][NextScenes]_vars

\* Channel writes through the sidecar and through the adapter.
NextWrite ==
    \/ ChannelInvoke
    \/ UpdateCtState

SpecWrite == Init /\ [][NextWrite]_vars

SpecSidecar == Init /\ [][NextSidecar]_vars

(***************************************************************************)
(* Specifications.  Each explores the adapter under one family of inputs.   *)
(*   Spec        overlapping cycles; a secondary type may fail              *)
(*   SpecRetry   one cycle; any type may fail                               *)
(*   SpecResync  as Spec, after a first complete cycle                      *)
(*   SpecEvents  one cycle without snapshot failures, started by the host   *)
(*               or by the resync timer; the event stream, the timers and   *)
(*               channel writes                                             *)
(***************************************************************************)
Next ==
    \/ RequestFullSync
    \/ SendTimerFire
    \/ SnapshotReplyOk
    \/ SecondaryReplyFail
    \/ DeviceReplyOk
    \/ DeviceReplyFail

Spec == Init /\ [][Next]_vars

NextRetry ==
    \/ RequestFullSyncOnce
    \/ SendTimerFire
    \/ SnapshotReplyOk
    \/ SnapshotReplyFail
    \/ DeviceReplyOk
    \/ DeviceReplyFail

SpecRetry == Init /\ [][NextRetry]_vars

\* The behaviours of Spec that follow a first complete cycle.
SpecResync == InitSynced /\ [][Next]_vars

NextEvents ==
    \/ RequestFullSyncOnce
    \/ ResyncTimerFire
    \/ SendTimerFire
    \/ SnapshotReplyOk
    \/ DeviceReplyOk
    \/ DeleteEvent
    \/ TopologyDelta
    \/ RoomMetadataDelta
    \/ LightDelta
    \/ RotaryDelta
    \/ ButtonDelta
    \/ DialResetFire
    \/ MultiPressFire
    \/ UpdateChannelState

SpecEvents == Init /\ [][NextEvents]_vars

\* One cycle, button and dial events, then stop() at any point.
NextStop ==
    \/ RequestFullSyncOnce
    \/ SendTimerFire
    \/ SnapshotReplyOk
    \/ DeviceReplyOk
    \/ RotaryDelta
    \/ ButtonDelta
    \/ DialResetFire
    \/ MultiPressFire
    \/ Stop

SpecStop == Init /\ [][NextStop]_vars

\* The event stream connection: data, terminations, reconnects, stop().
NextStream ==
    \/ LightDelta
    \/ StreamFinished
    \/ StreamStartFire
    \/ StreamRetryTimerFire
    \/ Stop

SpecStream == Init /\ [][NextStream]_vars

\* What changes the connection state: snapshot replies and their failures,
\* stream data and terminations, stop(), the sidecar's polls and the loss of
\* its host connection.  HueAdapter and HueSidecar share no state, so a
\* behaviour runs one of them; the adapter follows the device type alone.
InitConnectivity == StartWith(Fresh, <<>>, DeviceOnly, Devices)

SidecarIdle == polls = 0 /\ sc_connNotes = NoNotes

AdapterIdle == cycles = 0 /\ events = 0 /\ streamEnds = 0 /\ ~m_stopping

AdapterRequestFullSync == SidecarIdle /\ RequestFullSyncOnce
AdapterSendTimerFire == SidecarIdle /\ SendTimerFire
AdapterSnapshotReplyOk == SidecarIdle /\ SnapshotReplyOk
AdapterSnapshotReplyFail == SidecarIdle /\ SnapshotReplyFail
AdapterLightDelta == SidecarIdle /\ LightDelta
AdapterStreamFinished == SidecarIdle /\ StreamFinished
AdapterStreamStartFire == SidecarIdle /\ StreamStartFire
AdapterStreamRetryTimerFire == SidecarIdle /\ StreamRetryTimerFire
AdapterStop == SidecarIdle /\ Stop
SidecarTick == AdapterIdle /\ Tick
SidecarDisconnected == AdapterIdle /\ Disconnected

NextConnectivity ==
    \/ AdapterRequestFullSync
    \/ AdapterSendTimerFire
    \/ AdapterSnapshotReplyOk
    \/ AdapterSnapshotReplyFail
    \/ AdapterLightDelta
    \/ AdapterStreamFinished
    \/ AdapterStreamStartFire
    \/ AdapterStreamRetryTimerFire
    \/ AdapterStop
    \/ SidecarTick
    \/ SidecarDisconnected

SpecConnectivity == InitConnectivity /\ [][NextConnectivity]_vars

\* The bridge of FullArrays with the discovery resource of d2.
DiscoveredArrays == [FullArrays EXCEPT !["zigbee_device_discovery"] = {DiscoveryOwner}]

InitReconnect == StartWith(SyncedOn(DiscoveredArrays), <<>>, DiscoveryTypes, Devices)

\* The stream of a synchronised adapter with startDeviceDiscovery actions.
NextReconnect ==
    \/ LightDelta
    \/ StreamFinished
    \/ StreamStartFire
    \/ StreamRetryTimerFire
    \/ StartDeviceDiscovery
    \/ SuppressResetFire

SpecReconnect == InitReconnect /\ [][NextReconnect]_vars

\* The multi-press aggregation of one button, with the times between events.
NextButton ==
    \/ ButtonReport
    \/ WindowExpiry

SpecButton == InitSynced /\ [][NextButton]_vars

\* The dial of one device: turns, the reset timer, stop().
NextDial ==
    \/ RotaryReport
    \/ DialResetFire
    \/ Stop

SpecDial == InitSynced /\ [][NextDial]_vars

\* Renames and their verification by device fetches.
NextRename ==
    \/ UpdateDeviceName
    \/ RenameTimerFire
    \/ DeviceReplyAnyName
    \/ DeviceReplyFail

SpecRename == InitSynced /\ [][NextRename]_vars

(***************************************************************************)
(* Properties.                                                              *)
(***************************************************************************)
Emitted(sigs, kind) == {sigs[i].dev : i \in {k \in 1..Len(sigs) : sigs[k].sig = kind}}

\* No request, reply or delayed send of the adapter is outstanding.
Quiescent ==
    /\ \A t \in ResourceTypes : inFlight[t] = 0 /\ sendTimers[t] = 0
    /\ \A d \in Devices : devInFlight[d] = 0

\* The step completed a rebuild (fullSyncCompleted was emitted).
RebuildCompleted == FullSyncCompletedSig \in Range(out')

\* The step finalized a cycle degraded: bootstrap done without a rebuild.
DegradedFinalize ==
    /\ ~m_v2BootstrapDone
    /\ m_v2BootstrapDone'
    /\ m_v2SnapshotFailedThisCycle
       \/ \E t \in ResourceTypes : t \in gaveUp' \ gaveUp
    /\ ~RebuildCompleted

\* Every deviceRemoved(d) of sigs finds d not already reported removed.
RECURSIVE NoSecondRemoval(_, _)
NoSecondRemoval(view, sigs) ==
    IF sigs = <<>> THEN TRUE
    ELSE /\ Head(sigs).sig = "deviceRemoved" => Head(sigs).dev \notin view.removed
         /\ NoSecondRemoval(HostViewAfter(view, <<Head(sigs)>>), Tail(sigs))

\* C1: a device that was announced and then reported removed is not
\* reported removed a second time unless it was announced again in between;
\* this covers repeated delete events for the same id.
C1_RemovedExactlyOnce == [][NoSecondRemoval(HostView, out')]_vars

\* C2: a rebuild from resource arrays identical, for every type, to those
\* of the previous completed rebuild emits no deviceUpdated.
C2_IdenticalRebuildIsSilent ==
    [][(/\ RebuildCompleted
        /\ lastBuilt.set
        /\ [t \in AllTypes |-> m_v2SnapshotByType'[t].data] = lastBuilt.arrays)
       => Emitted(out', "deviceUpdated") = {}]_vars

\* Every channelStateUpdated(d) of sigs finds d not reported removed.
RECURSIVE NoStateForRemoved(_, _)
NoStateForRemoved(view, sigs) ==
    IF sigs = <<>> THEN TRUE
    ELSE /\ Head(sigs).sig = "channelStateUpdated" => Head(sigs).dev \notin view.removed
         /\ NoStateForRemoved(HostViewAfter(view, <<Head(sigs)>>), Tail(sigs))

\* C3: after deviceRemoved(d) no channelStateUpdated for d is emitted until
\* d is announced again, whether by a timer armed before the removal or by
\* a later delta owned by d.
C3_NoStateAfterRemoval == [][NoStateForRemoved(HostView, out')]_vars

\* C4: once every outstanding request of a started cycle has been answered
\* and no delayed send remains, the cycle is finalized (bootstrap done).
C4_CycleFinalizes == (cycles > 0 /\ Quiescent) => m_v2BootstrapDone

\* C5: a topology delta received since the last resync start leaves a
\* resync scheduled, so that a resync starts after the delta.
C5_TopologyDeltaSchedulesResync == topoDirty => m_v2ResyncTimer

\* C6: a core type that failed for good is not replaced by an empty array
\* and connectivity stays reported down for the rest of the attempt.
C6_CoreFailureAborts ==
    \A t \in CoreTypes \cap gaveUp :
        ~m_v2SnapshotByType[t].present /\ ~m_connected

\* C7: when a degraded cycle is finalized, every channel and every known
\* device in place before the cycle is still in place, and the finalizing
\* step emits no deviceRemoved.
C7_DegradedKeepsModel ==
    [][DegradedFinalize
       => /\ \A d \in Devices :
                Range(atCycleStart.channels[d]) \subseteq Range(m_v2DeviceChannels'[d])
          /\ atCycleStart.known \subseteq m_knownDeviceExternalIds'
          /\ Emitted(out', "deviceRemoved") = {}]_vars

\* Devices delivered by this cycle's device array whose light arrived too.
FetchedLightDevices ==
    {d \in Devices :
        /\ m_v2SnapshotByType'["device"].present /\ "device" \notin gaveUp'
        /\ m_v2SnapshotByType'["light"].present /\ "light" \notin gaveUp'
        /\ d \in {o.id : o \in m_v2SnapshotByType'["device"].data}
        /\ d \in m_v2SnapshotByType'["light"].data}

\* C8: when a cycle degraded by a secondary type is finalized, the devices
\* whose device and light resources were fetched in it are announced.
C8_DegradedStillUpdates ==
    [][(DegradedFinalize /\ gaveUp' \cap CoreTypes = {})
       => FetchedLightDevices \subseteq Emitted(out', "deviceUpdated")]_vars

\* C10: the call that ingests a delete event for a device leaves no channel
\* entry and no binding key of that device.
C10_DeleteDropsChannelsAndBindings ==
    [][\A d \in Devices :
         (events' = events + 1 /\ d \in Emitted(out', "deviceRemoved"))
         => /\ m_v2DeviceChannels'[d] = <<>>
            /\ \A key \in m_channelBindings' : key[1] # d]_vars


\* The poll published a snapshot (it ended with fullSyncCompleted).
Published == sc_out' # <<>> /\ sc_out'[Len(sc_out')] = FullSyncCompletedSig

ChannelsSent(sigs, d) ==
    UNION {Range(sigs[i].channels) :
             i \in {k \in 1..Len(sigs) : sigs[k].sig = "deviceUpdated" /\ sigs[k].dev = d}}

\* C9: when the button fetch of a sidecar poll fails and the poll publishes,
\* every device published before with a button channel and published again
\* by this poll keeps that channel in this poll's deviceUpdated.
C9_SidecarKeepsFailedTypeChannels ==
    [][(Published /\ "button" \in sc_failed')
       => \A d \in Devices :
            (/\ sc_devices[d].present
             /\ "button" \in Range(sc_devices[d].channels)
             /\ sc_devices'[d].present)
            => "button" \in ChannelsSent(sc_out', d)]_vars

\* C11: once stop() has begun, no handler emits channelStateUpdated,
\* deviceUpdated or deviceRemoved and none issues a network request.
C11_NothingAfterStop ==
    [][m_stopping
       => /\ Emitted(out', "channelStateUpdated") = {}
          /\ Emitted(out', "deviceUpdated") = {}
          /\ Emitted(out', "deviceRemoved") = {}
          /\ \A t \in ResourceTypes : inFlight'[t] <= inFlight[t]
          /\ \A d \in Devices : devInFlight'[d] <= devInFlight[d]
          /\ putsSent' = putsSent]_vars

\* C12: while the adapter is not stopping, a finished event stream leaves
\* a reconnect pending: a single-shot startEventStream or the retry timer.
C12_StreamEndSchedulesReconnect ==
    (~m_stopping /\ ~m_eventStreamReply) => (streamStarts > 0 \/ m_eventStreamRetryTimer)


\* The aggregated multi-press events among the signals sigs, in order.
AggregatedIn(sigs) ==
    LET IsAggregated(x) ==
            /\ x.sig = "channelStateUpdated"
            /\ "value" \in DOMAIN x
            /\ x.value \in {"DoublePress", "TriplePress", "QuadruplePress", "QuintuplePress"}
    IN  SelectSeq(sigs, IsAggregated)

\* The step is the expiry of the button's aggregation window.
WindowExpires ==
    /\ m_buttonMultiPress[ButtonOwner].timer
    /\ ~m_buttonMultiPress'[ButtonOwner].timer
    /\ buttonEvents' = buttonEvents

\* C13: when the aggregation window expires with n counted short releases,
\* exactly one aggregated event is emitted if n >= 2 (Double, Triple,
\* Quadruple, Quintuple from 5 on) and none if n = 1, and the count is 0
\* afterwards; four short releases each at most 500 ms after the one before
\* give exactly one QuadruplePress at the expiry.
C13_WindowExpiryAggregates ==
    [][WindowExpires
       => LET n == m_buttonMultiPress[ButtonOwner].count
              agg == AggregatedIn(out')
              One(code) == <<ChannelValueSig(ButtonOwner, "button", code)>>
          IN  /\ m_buttonMultiPress'[ButtonOwner].count = 0
              /\ n < 2 => agg = <<>>
              /\ n = 2 => agg = One("DoublePress")
              /\ n = 3 => agg = One("TriplePress")
              /\ n = 4 => agg = One("QuadruplePress")
              /\ n >= 5 => agg = One("QuintuplePress")
              /\ (burst.n = 4 /\ burst.close) => agg = One("QuadruplePress")]_vars

\* The code the host is to see for each recognised button.last_event.
RecognisedCode ==
    [initial_press |-> "InitialPress", long_press |-> "LongPress", repeat |-> "Repeat",
     short_release |-> "ShortPressRelease", long_release |-> "LongPressRelease"]

\* The button signals among sigs that are not aggregated ones, in order.
IndividualIn(sigs) ==
    LET IsIndividual(x) ==
            /\ x.sig = "channelStateUpdated"
            /\ "value" \in DOMAIN x
            /\ x.channel = "button"
            /\ x.value \notin {"DoublePress", "TriplePress", "QuadruplePress", "QuintuplePress"}
    IN  SelectSeq(sigs, IsIndividual)

\* C14: the handler call that processes a button event with a recognised
\* code emits that event itself, once, whether or not the event is counted
\* for the aggregation; a short release is counted as well, with or without
\* an initial press before it.
C14_EveryButtonEventEmitted ==
    [][(buttonEvents' = buttonEvents + 1 /\ reported' \in DOMAIN RecognisedCode)
       => /\ IndividualIn(out')
             = <<ChannelValueSig(ButtonOwner, "button", RecognisedCode[reported'])>>
          /\ reported' = "short_release"
             => /\ m_buttonMultiPress'[ButtonOwner].count
                   = m_buttonMultiPress[ButtonOwner].count + 1
                /\ m_buttonMultiPress'[ButtonOwner].timer]_vars

\* A short release that no initial press preceded has been emitted and counted.
C14_ReleaseWithoutPress ==
    /\ buttonEvents = 1
    /\ reported = "short_release"
    /\ m_buttonMultiPress[ButtonOwner].count = 1
    /\ ChannelValueSig(ButtonOwner, "button", "ShortPressRelease") \in Range(out)

\* The dial signals among sigs, in order.
DialIn(sigs) ==
    LET IsDial(x) == x.sig = "channelStateUpdated" /\ x.channel = "dial"
    IN  SelectSeq(sigs, IsDial)

\* C15: a dial delta with non-zero steps and direction clock_wise or
\* counter_clock_wise emits the signed step count in the handler call and
\* (re)arms the device's one reset timer for 200 ms; any other delta emits
\* nothing and leaves the timer alone; the timer's expiry emits exactly one
\* zero while the adapter is not stopping, a zero is emitted by nothing
\* else, and never more than one expiry is pending.
C15_DialPulse ==
    [][LET timer == m_dialResetTimers[RotaryOwner]
           qualifies == /\ rotation'.steps # 0
                        /\ rotation'.direction \in {"clock_wise", "counter_clock_wise"}
           signed == IF rotation'.direction = "counter_clock_wise"
                     THEN 0 - rotation'.steps ELSE rotation'.steps
           delta == dialEvents' = dialEvents + 1
           expiry == dialEvents' = dialEvents /\ timer' # timer
           zero == ChannelValueSig(RotaryOwner, "dial", 0)
       IN  /\ (delta /\ qualifies)
              => /\ DialIn(out') = <<ChannelValueSig(RotaryOwner, "dial", signed)>>
                 /\ timer' = [pending |-> 1, interval |-> 200]
           /\ (delta /\ ~qualifies) => (DialIn(out') = <<>> /\ timer' = timer)
           /\ (expiry /\ ~m_stopping) => (DialIn(out') = <<zero>> /\ timer'.pending = 0)
           /\ ~expiry => zero \notin Range(out')
           /\ timer'.pending <= 1]_vars

\* A burst of deltas, the last one arriving with the timer armed, has been
\* followed by its one zero.
C15_BurstReset ==
    /\ rotation.armed
    /\ rotation.steps # 0
    /\ rotation.direction = "counter_clock_wise"
    /\ m_dialResetTimers[RotaryOwner].pending = 0
    /\ ChannelValueSig(RotaryOwner, "dial", 0) \in Range(out)

\* C16: every rename command with a non-zero cmd id receives exactly one
\* cmdResult: never a second one, and while it has none and the adapter is
\* not stopping, the device's verification is still under way (its timer is
\* armed or its metadata fetch is in flight or queued); no verification
\* goes beyond the third fetch.
C16_RenameAlwaysAnswered ==
    \A c \in 1..lastCmd :
        /\ cmdResults[c] <= 1
        /\ (cmdResults[c] = 0 /\ ~m_stopping)
           => \E d \in Devices :
                  /\ rename.m_pendingRenameCommands[d] = c
                  /\ rename.m_pendingRenameVerifications[d] \in 0..2
                  /\ \/ rename.m_renameVerifyTimers[d] = 700
                     \/ devInFlight[d] > 0
                     \/ d \in Range(m_v2DeviceFetchQueue)

\* The request's value does not have the shape its channel takes.
BadShape(request) ==
    \/ request.channel = "on" /\ request.value.type # "bool"
    \/ request.channel \in {"bri", "ct"} /\ request.value.type \notin {"int", "double"}
    \/ request.channel = "color"
       /\ ~(request.value = Scalar("string", FALSE, 0, "#ff0000") \/ request.value.type = "json")
    \/ request.channel \notin {"on", "bri", "ct", "color"}

\* C17: a sidecar channel write whose value has a bad shape is rejected
\* with an error text and before any network call: no refresh poll has
\* been made and no PUT body has been sent.
C17_BadShapeRejectedOffline ==
    BadShape(invoked.request) /\ invoked.status # "none"
        => /\ invoked.status = "InvalidArgument"
           /\ invoked.error # ""
           /\ ~invoked.polled
           /\ invoked.put = NoPayload

\* C18: every ct write sent, by the sidecar or by the adapter, carries the
\* requested value rounded and clamped into [100, 1000] as its mirek.
C18_CtClamped ==
    LET Expected(value) ==
            LET n == IF value.type = "bool" THEN (IF value.b THEN 10 ELSE 0) ELSE value.n
                rounded == (n + 5) \div 10
            IN  IF rounded < 100 THEN 100 ELSE IF rounded > 1000 THEN 1000 ELSE rounded
    IN  /\ invoked.put.kind = "ct" => invoked.put.n = Expected(invoked.request.value)
        /\ written.sent => written.mirek = Expected(written.value)

\* Every roomRemoved(r) of sigs finds r held by the host.
RECURSIVE RemovesHeldRooms(_, _)
RemovesHeldRooms(held, sigs) ==
    IF sigs = <<>> THEN TRUE
    ELSE /\ Head(sigs).sig = "roomRemoved" => Head(sigs).room \in held
         /\ RemovesHeldRooms(HostRoomsAfter(held, <<Head(sigs)>>), Tail(sigs))

\* C19: a room announced by an earlier poll and absent from the room
\* snapshot of a later completed poll is reported removed, and exactly
\* once: after a completed poll the host holds no room that the last
\* completed poll announced and this one's snapshot lacks, and no roomRemoved
\* is sent for a room the host does not hold.
C19_RoomRemovedExactlyOnce ==
    [][/\ Published => (sc_rooms \ sc_rooms') \cap hostRooms' = {}
       /\ RemovesHeldRooms(hostRooms, sc_out')]_vars

\* The class changes of a device the host holds: none, Unknown to a
\* specific class, Light to a more specific class.
AllowedClassChange(old, new) ==
    \/ old \in {NoClass, "Unknown", new}
    \/ old = "Light" /\ new # "Unknown"

\* Every deviceUpdated of sigs changes the class the host holds as allowed.
RECURSIVE ClassesMonotonic(_, _)
ClassesMonotonic(held, sigs) ==
    IF sigs = <<>> THEN TRUE
    ELSE /\ Head(sigs).sig = "deviceUpdated"
            => AllowedClassChange(held[Head(sigs).dev], Head(sigs).cls)
         /\ ClassesMonotonic(HostClassAfter(held, <<Head(sigs)>>), Tail(sigs))

\* C20: the class of a device is monotonic over the polls: a device the
\* host holds with a specific class is never announced again with class
\* Unknown, and its class changes only from Unknown to a specific class or
\* from Light to a more specific one.
C20_ClassMonotonic == [][ClassesMonotonic(hostClass, sc_out')]_vars

\* No scenesUpdated of sigs carries a scene with an empty name.
NamedScenesIn(sigs) ==
    \A i \in 1..Len(sigs) :
        sigs[i].sig = "scenesUpdated" => \A scene \in sigs[i].scenes : scene.name # ""

\* C21: no scenes notification to the host, from the adapter or from the
\* sidecar, contains a scene with an empty name.
C21_NoUnnamedScene == NamedScenesIn(out) /\ NamedScenesIn(sc_out)

\* The button channels built from the control ids are named as claimed:
\* "button" for one resource; for two or more, one channel per resource,
\* the channels distinct and each named after its control id.
NamedAsClaimed(controlIds, channels) ==
    IF Len(controlIds) = 1 THEN channels = <<"button">>
    ELSE /\ Len(channels) = Len(controlIds)
         /\ Cardinality(Range(channels)) = Len(controlIds)
         /\ \A i \in DOMAIN controlIds :
                controlIds[i] > 0 => channels[i] = buttonChannelId(controlIds[i])

\* C22: a device with one button resource gets the channel "button"; a
\* device with n >= 2 button resources gets n distinct channels, one per
\* resource, named "button<control_id>"; in HueAdapter and in the sidecar.
C22_ButtonChannelNames ==
    /\ adapterButtons # NotBuilt => NamedAsClaimed(buttonResources, adapterButtons)
    /\ sidecarButtons # NotBuilt => NamedAsClaimed(buttonResources, sidecarButtons)

\* The resource types of the current cycle that have neither delivered
\* their array nor exhausted their retries.
OutstandingTypes == {t \in ResourceTypes : ~m_v2SnapshotByType[t].present}

\* C23: from the first cycle on, m_v2SnapshotPending is the number of
\* resource types of the current cycle that are still outstanding, so the
\* model is rebuilt only when the data of every requested type is there.
C23_PendingCountsOutstandingTypes ==
    (cycles > 0 \/ m_v2BootstrapDone) =>
        m_v2SnapshotPending = Cardinality(OutstandingTypes)

\* C24: buildDevicesFromV2Snapshots never emits deviceRemoved while a lazy
\* device-metadata fetch is in flight or queued, the fetches that the same
\* pass started included.
C24_NoRemovalWhileFetching == ~removedWhileFetching

\* Some signal of sigs is of the given kind.
Carries(sigs, kind) == \E i \in 1..Len(sigs) : sigs[i].sig = kind

\* C25: a rebuild pass whose emit step meets a device with channels and empty
\* metadata emits no deviceUpdated, no deviceRemoved and no fullSyncCompleted.
C25_BlockedPassEmitsNothing ==
    blockedPass.blocked =>
        /\ ~Carries(blockedPass.out, "deviceUpdated")
        /\ ~Carries(blockedPass.out, "deviceRemoved")
        /\ ~Carries(blockedPass.out, "fullSyncCompleted")

\* The outcomes of the failures of a type that fails until the adapter gives
\* up: kMaxV2ResourceSnapshotRetries retries, the k-th after
\* kV2ResourceRetryBaseDelayMs * k, then the surrender.
FullRetryLog ==
    [k \in 1..(kMaxV2ResourceSnapshotRetries + 1) |->
        IF k <= kMaxV2ResourceSnapshotRetries THEN kV2ResourceRetryBaseDelayMs * k ELSE 0]

IsPrefix(p, q) == Len(p) <= Len(q) /\ \A i \in 1..Len(p) : p[i] = q[i]

\* C26: a secondary type that keeps failing is retried at most 3 times per
\* cycle, the k-th retry 1000 ms x k after the k-th failure; the failure
\* after the last retry stores an empty array for the type, marks the cycle
\* degraded and takes the type out of the pending count, exactly once.
C26_BoundedRetriesThenEmpty ==
    \A t \in ResourceTypes \ CoreTypes :
        LET log == retryLog[t]
            Entries == 1..Len(log)
        IN  /\ (\A i \in Entries : log[i] # -1) => IsPrefix(log, FullRetryLog)
            /\ (\E i \in Entries : log[i] = 0) =>
                    Cardinality({i \in Entries : log[i] <= 0}) = 1
            /\ (log # <<>> /\ log[Len(log)] = 0) =>
                    /\ m_v2SnapshotByType[t] = [present |-> TRUE, data |-> {}]
                    /\ m_v2SnapshotFailedThisCycle \/ m_v2BootstrapDone

\* The ids waiting in m_v2DeviceFetchQueue.
QueuedFetches == Range(m_v2DeviceFetchQueue)

\* A call of fetchV2DeviceResource for an id in flight, queued or failed
\* leaves the fetch state as it is and sends nothing.
RepeatedFetchIsNoOp ==
    \A d \in m_pendingV2DeviceFetch \cup QueuedFetches \cup m_failedV2DeviceFetch :
        LET r == fetchV2DeviceResource(St, d)
        IN  /\ r.m_pendingV2DeviceFetch = m_pendingV2DeviceFetch
            /\ r.m_v2DeviceFetchQueue = m_v2DeviceFetchQueue
            /\ r.devInFlight = devInFlight

FetchSetsApart ==
    /\ m_pendingV2DeviceFetch \cap QueuedFetches = {}
    /\ \A i, j \in 1..Len(m_v2DeviceFetchQueue) :
           m_v2DeviceFetchQueue[i] = m_v2DeviceFetchQueue[j] => i = j

\* No step sends a request for an id that is in the failed set.
FailedIsNotFetched ==
    \A d \in m_failedV2DeviceFetch : devInFlight'[d] <= devInFlight[d]

BeyondCapQueued ==
    Cardinality(m_pendingV2DeviceFetch) >= kMaxConcurrentV2DeviceFetch =>
        \A d \in AllDevices \ (m_pendingV2DeviceFetch \cup QueuedFetches
                                   \cup m_failedV2DeviceFetch) :
            LET r == fetchV2DeviceResource(St, d)
            IN  /\ r.m_pendingV2DeviceFetch = m_pendingV2DeviceFetch
                /\ r.m_v2DeviceFetchQueue = Append(m_v2DeviceFetchQueue, d)
                /\ r.devInFlight = devInFlight

\* A step starts at most one fetch, and with ids waiting it is the head of
\* the queue that is started and taken off.
StartsOneFromHead ==
    LET started == m_pendingV2DeviceFetch' \ m_pendingV2DeviceFetch
    IN  /\ Cardinality(started) <= 1
        /\ (m_v2DeviceFetchQueue # <<>> /\ started # {}) =>
               /\ started = {Head(m_v2DeviceFetchQueue)}
               /\ m_v2DeviceFetchQueue' = Tail(m_v2DeviceFetchQueue)

ArmedScheduleIsNoOp ==
    m_v2ResyncTimer =>
        \A reason \in ResyncReasons :
            LET r == scheduleV2SnapshotRefresh(St, reason)
            IN  /\ r.m_pendingV2ResyncReason = m_pendingV2ResyncReason
                /\ r.m_v2ResyncTimer
                /\ r.resyncStarts = resyncStarts

\* The armed timer was started once and keeps the reason of that start.
ArmedOnce ==
    /\ resyncStarts = (IF m_v2ResyncTimer THEN 1 ELSE 0)
    /\ m_v2ResyncTimer => m_pendingV2ResyncReason \in ResyncReasons

\* A step leaves an armed timer and its reason alone, or ends the arming:
\* by stop(), or by the time-out, which calls requestFullSync once.
ArmingEndsInOneSync ==
    m_v2ResyncTimer =>
        \/ /\ m_v2ResyncTimer'
           /\ m_pendingV2ResyncReason' = m_pendingV2ResyncReason
           /\ cycles' = cycles
        \/ /\ ~m_v2ResyncTimer'
           /\ m_stopping'
           /\ cycles' = cycles
        \/ /\ ~m_v2ResyncTimer'
           /\ ~m_stopping'
           /\ cycles' = cycles + 1
           /\ m_v2SnapshotPending' = Len(Resources)
           /\ m_pendingV2ResyncReason' = ""

\* C29: while m_v2ResyncTimer is armed, a further scheduleV2SnapshotRefresh
\* neither restarts the timer nor replaces the stored reason, and each
\* arming ends in exactly one requestFullSync unless stop() comes first.
C29_ResyncCoalesced ==
    [](ArmedScheduleIsNoOp /\ ArmedOnce) /\ [][ArmingEndsInOneSync]_vars

\* The timer armed by a delete event has seen a topology event since.
C29_Witness ==
    /\ m_v2ResyncTimer
    /\ m_pendingV2ResyncReason = DeleteReason
    /\ topoDirty

\* The step handles a short release that comes more than the reset gap
\* after the last counted one.
LateRelease ==
    /\ buttonEvents' = buttonEvents + 1
    /\ reported' = "short_release"
    /\ m_buttonMultiPress[ButtonOwner].count > 0
    /\ burst'.gap > kButtonMultiPressResetGapMs

\* C30: a short release more than 500 ms after the previous qualifying
\* event first flushes the pending count of the previous burst (emitting
\* its aggregated event if that count is 2 or more) and then starts a new
\* burst with count 1; two short releases more than 500 ms apart are never
\* aggregated into one DoublePress.
C30_LateReleaseStartsNewBurst ==
    [][/\ LateRelease
          => LET n == m_buttonMultiPress[ButtonOwner].count
             IN  /\ m_buttonMultiPress'[ButtonOwner].count = 1
                 /\ AggregatedIn(out')
                    = IF n >= 2
                      THEN <<ChannelValueSig(ButtonOwner, "button", aggregatedCode(n))>>
                      ELSE <<>>
       /\ (WindowExpires /\ burst.n = 2 /\ ~burst.close)
          => AggregatedIn(out') = <<>>]_vars

\* The step is a stream termination with an error while the adapter runs:
\* onEventStreamFinished has called setConnected(false).
StreamFails ==
    /\ streamEnds' = streamEnds + 1
    /\ ~m_stopping
    /\ ~m_connected'

\* C31: between two receptions of stream data at most 5 fast reconnects
\* are attempted after stream errors, also when startDeviceDiscovery
\* raises the suppress count in between; every further failure arms the
\* slow retry timer and schedules no fast reconnect.
C31_FastReconnectsBounded ==
    /\ [](fastReconnects <= kFastReconnects)
    /\ [][(StreamFails /\ fastReconnects >= kFastReconnects)
           => (streamStarts' = streamStarts /\ m_eventStreamRetryTimer')]_vars

\* The members announced for id by the messages sigs of the given kind.
MembersOf(sigs, kind, id) ==
    {sigs[i].members : i \in {k \in DOMAIN sigs : sigs[k].sig = kind /\ sigs[k].room = id}}

\* Every zone of zoneData that refers to a room holds, once each, all the
\* members announced for that room.
ZonesExpandRooms(sigs) ==
    \A i \in DOMAIN zoneData :
        \A ref \in Range(zoneData[i].services) \cup Range(zoneData[i].children) :
            ref.rtype = "room" =>
                \A zm \in MembersOf(sigs, "groupUpdated", zoneData[i].id) :
                    /\ NoDuplicates(zm)
                    /\ \A rm \in MembersOf(sigs, "roomUpdated", ref.rid) :
                           Range(rm) \subseteq Range(zm)

\* C32: after a rebuild, the members announced for a zone that refers to
\* a room R in its children or services contain every member announced for
\* R, each device once; for HueAdapter and for the sidecar's buildSnapshot.
C32_ZonesExpandRooms ==
    /\ adapterGroups # NotGrouped => ZonesExpandRooms(adapterGroups)
    /\ sidecarGroups # NotGrouped => ZonesExpandRooms(sidecarGroups)

\* The same for HueAdapter alone.
AdapterZonesExpandRooms == adapterGroups # NotGrouped => ZonesExpandRooms(adapterGroups)

\* Every channelStateUpdated(d) of sigs finds d announced by a deviceUpdated
\* before it.
RECURSIVE NoStateForUnannounced(_, _)
NoStateForUnannounced(view, sigs) ==
    IF sigs = <<>> THEN TRUE
    ELSE /\ Head(sigs).sig = "channelStateUpdated"
            => Head(sigs).dev \in view.announced \cup view.removed
         /\ NoStateForUnannounced(HostViewAfter(view, <<Head(sigs)>>), Tail(sigs))

\* C33: no channelStateUpdated is emitted for a device before a
\* deviceUpdated has announced it, also for the stream deltas that arrive
\* before the first snapshot cycle has completed.
C33_NoStateBeforeAnnouncement == [][NoStateForUnannounced(HostView, out')]_vars

\* Frame k has been written and read to its end.
Delivered(k) == k <= framesSent /\ \A i \in DOMAIN wire : wire[i].frame # k

\* C34: every frame the stream delivers is processed exactly once however
\* the transport chunks the bytes; a frame whose payload is not valid JSON
\* is dropped and the frames after it are still processed.
C34_FramesHandledOnce ==
    \A k \in Frames :
        /\ handled[k] <= 1
        /\ ~frameValid[k] => handled[k] = 0
        /\ (Delivered(k) /\ frameValid[k]) => handled[k] = 1

\* The step handles an update event for a room or zone whose object has
\* neither children nor services.
BareGroupDelta ==
    /\ events' = events + 1
    /\ groupDelta'.n = events'
    /\ groupDelta'.keys = {}

\* C35: an update event for a room or zone that carries neither children
\* nor services leaves m_v2RoomMemberships as it is and announces no room
\* or group with an empty member list.
C35_BareDeltaKeepsMembers ==
    [][BareGroupDelta
       => /\ m_v2RoomMemberships' = m_v2RoomMemberships
          /\ \A i \in DOMAIN out' :
                 out'[i].sig \in {"roomUpdated", "groupUpdated"} => out'[i].members # <<>>]_vars

\* The step completes a snapshot cycle: its handler emits fullSyncCompleted.
CycleCompletes == \E i \in DOMAIN out' : out'[i] = FullSyncCompletedSig

\* The named scenes of the scene array the adapter holds.
NamedScenesOfSnapshot(byType) ==
    sceneValues(scenesOfSnapshot([i \in SceneIds |-> NoScene], byType["scene"].data))

\* C36: after every completed snapshot cycle the scenes last announced by
\* scenesUpdated are the named scenes of that cycle's scene snapshot, also
\* when the snapshot holds no scene.
C36_ScenesFollowSnapshot ==
    [][CycleCompletes => hostScenes' = NamedScenesOfSnapshot(m_v2SnapshotByType')]_vars

\* A cycle has completed on a scene snapshot with a named scene, which the
\* host holds.
C36_Witness ==
    /\ m_v2BootstrapDone
    /\ hostScenes # {}
    /\ hostScenes = NamedScenesOfSnapshot(m_v2SnapshotByType)

\* C37: connection-state notifications alternate and the first one is true,
\* for HueAdapter's connectionStateChanged and for the sidecar's.
C37_ConnectivityAlternates == connNotes.alternating /\ sc_connNotes.alternating

\* The sidecar has notified a connection and, in its last tick, the loss of
\* it.
C37_Witness ==
    /\ \E d \in Devices : sc_devices[d].present
    /\ \E i \in DOMAIN sc_out : sc_out[i] = ConnectionSig(FALSE)
    /\ ~sc_connNotes.last

\* C38: the channel ids of a device are unique in what the adapter's rebuild
\* and the sidecar's buildSnapshot build, also for several button resources
\* with a missing or repeated control_id.
C38_ChannelIdsUnique == NoDuplicates(adapterButtons) /\ NoDuplicates(sidecarButtons)

\* Both have built the channels of a device with two button resources, one
\* of them without a control_id.
C38_Witness ==
    /\ Len(buttonResources) = 2
    /\ buttonResources[1] = 0
    /\ adapterButtons # NotBuilt
    /\ sidecarButtons # NotBuilt
    /\ NoDuplicates(sidecarButtons)

\* The number a PUT body carries for the bri or ct channel, in tenths.
payloadTenths(put) == IF put.kind = "ct" THEN 10 * put.n ELSE put.n

\* The sidecar's last onChannelInvoke accepted a write of bri or ct.
AcceptedNumericWrite ==
    invoked.status = "Success" /\ invoked.request.channel \in {"bri", "ct"}

\* C39: for every accepted bri or ct write of the sidecar, the final value
\* of the command response and the channel value reported to the host are
\* the value placed in the bridge payload after clamping.
C39_EchoMatchesPayload ==
    AcceptedNumericWrite
        => /\ scalarAsDouble(invoked.final).ok
           /\ scalarAsDouble(invoked.final).n = payloadTenths(invoked.put)
           /\ invoked.reported = payloadTenths(invoked.put)

\* An accepted write of a brightness within [0, 100], echoed as sent.
C39_Witness ==
    /\ AcceptedNumericWrite
    /\ invoked.request.channel = "bri"
    /\ invoked.put.n = 500
    /\ invoked.reported = 500
    /\ scalarAsDouble(invoked.final).n = 500

\* The step is a tick whose fetches of the device, light and room arrays
\* succeeded and whose publishSnapshot returned false: a send failed, so
\* fullSyncCompleted was not sent.
PublishFailed ==
    /\ polls' = polls + 1
    /\ sc_failed' \cap {"device", "light", "room"} = {}
    /\ \A i \in DOMAIN sc_out' : sc_out'[i] # FullSyncCompletedSig

\* C40: publishSnapshot is all-or-nothing: when a send fails and it returns
\* false, m_devices, m_lightResourceByDevice and m_knownRooms are unchanged.
C40_PublishAllOrNothing ==
    [][PublishFailed
       => /\ sc_devices' = sc_devices
          /\ sc_lights' = sc_lights
          /\ sc_rooms' = sc_rooms]_vars
====
